---- MODULE Spec2Model ----
(***************************************************************************)
(* Model of the fairness toolkit: the metric functions of src/metrics.py   *)
(* and the FairnessDetector class of src/fairness_detector.py.             *)
(*                                                                         *)
(* Numbers.  The code computes with float64.  Every number it produces is  *)
(* a mean of 0/1 values or a difference / quotient of two such means, so   *)
(* the model keeps each value as an exact fraction <<num, den>> in lowest  *)
(* terms (den > 0); +infinity is <<1, 0>> and NaN is <<0, 0>>.  Two such   *)
(* values of different exact value are many ulps apart, so float64 orders  *)
(* them as the fractions are ordered.  Rounding decides a comparison only  *)
(* where the two sides have the same exact value and are computed by       *)
(* different operations: the quotient min_rate / max_rate against the      *)
(* literal 0.8, and a rate against the product 0.8 * max_rate, in the      *)
(* compliance checks (0.6 / 0.75 is just below 0.8 in float64).  There the *)
(* model computes the float64 result digit by digit and moves the fraction *)
(* one step up or down accordingly.                                        *)
(*                                                                         *)
(* Labels.  Group labels are the strings 'A', 'B', 'C'; an array of labels *)
(* is modelled by the sequence of their ranks 1, 2, 3 in sort order, and   *)
(* GroupStr gives the string of a rank back.                               *)
(***************************************************************************)
EXTENDS Integers, Sequences, FiniteSets, TLC

VARIABLES sensitive_attributes, target, threshold, verbose, data_, op, args, ret

vars == <<sensitive_attributes, target, threshold, verbose, data_, op, args, ret>>

detector == <<sensitive_attributes, target, threshold, verbose, data_>>

(***************************************************************************)
(* Bounds of the model.                                                    *)
(***************************************************************************)
MaxRows == 3

MaxGroupSize == 5

Labels == {1, 2, 3}

\* Python's None where a string may stand
None == "None"

\* Python's None, or a value, where an array or a DataFrame may stand
Nothing == <<>>

Some(x) == <<x>>

Get(o) == o[1]

(***************************************************************************)
(* float arithmetic, on exact fractions                                    *)
(***************************************************************************)
RECURSIVE GCD(_, _)
GCD(a, b) == IF b = 0 THEN a ELSE GCD(b, a % b)

IAbs(n) == IF n < 0 THEN -n ELSE n

Inf == <<1, 0>>

NaN == <<0, 0>>

Norm(n, d) ==
    IF d = 0 THEN (IF n = 0 THEN NaN ELSE IF n > 0 THEN Inf ELSE <<-1, 0>>)
    ELSE LET g == GCD(IAbs(n), IAbs(d))
             s == IF d < 0 THEN -1 ELSE 1
         IN  <<(s * n) \div g, (s * d) \div g>>

Zero == <<0, 1>>

One == <<1, 1>>

IsFinite(x) == x[2] # 0

RSub(x, y) == Norm(x[1] * y[2] - y[1] * x[2], x[2] * y[2])

RMul(x, y) == Norm(x[1] * y[1], x[2] * y[2])

RDiv(x, y) == Norm(x[1] * y[2], x[2] * y[1])

RAdd(x, y) == Norm(x[1] * y[2] + y[1] * x[2], x[2] * y[2])

RAbs(x) == <<IAbs(x[1]), x[2]>>

RLt(x, y) ==
    IF x = NaN \/ y = NaN THEN FALSE
    ELSE IF ~IsFinite(x) \/ ~IsFinite(y)
         THEN (IF x = y THEN FALSE
               ELSE IF ~IsFinite(x) THEN x[1] < 0 ELSE y[1] > 0)
         ELSE x[1] * y[2] < y[1] * x[2]

RGt(x, y) == RLt(y, x)

RLe(x, y) == x # NaN /\ y # NaN /\ (x = y \/ RLt(x, y))

RGe(x, y) == RLe(y, x)

\* Python's builtin max(a, b): b only when b > a
RMax2(a, b) == IF RGt(b, a) THEN b ELSE a

RMin2(a, b) == IF RLt(b, a) THEN b ELSE a

(***************************************************************************)
(* results of a call: a returned value or a raised exception               *)
(***************************************************************************)
Ok(v) == [kind |-> "ok", msg |-> "", val |-> v]

Raise(k, m) == [kind |-> k, msg |-> m, val |-> NaN]

IsErr(r) == r.kind # "ok"

CardinalityError ==
    Raise("ValueError", "Currently only supports binary sensitive attributes")

IndexError ==
    Raise("IndexError", "boolean index did not match indexed array")

(***************************************************************************)
(* numpy helpers                                                           *)
(***************************************************************************)
RECURSIVE SortedSeq(_)
SortedSeq(S) ==
    IF S = {} THEN <<>>
    ELSE LET m == CHOOSE x \in S : \A y \in S : x <= y
         IN  <<m>> \o SortedSeq(S \ {m})

\* mutant: the distinct values in descending order
Unique_Descending(arr) ==
    LET u == SortedSeq({arr[i] : i \in DOMAIN arr})
    IN  [i \in DOMAIN u |-> u[Len(u) + 1 - i]]

\* np.unique(arr): the sorted distinct values
Unique(arr) == SortedSeq({arr[i] : i \in DOMAIN arr})

\* arr == v, elementwise
EqMask(arr, v) == [i \in DOMAIN arr |-> arr[i] = v]

\* m1 & m2, elementwise (operands of equal length)
AndMask(m1, m2) == [i \in DOMAIN m1 |-> m1[i] /\ m2[i]]

\* mask.sum()
MaskSum(mask) == Cardinality({i \in DOMAIN mask : mask[i]})

RECURSIVE SumSeq(_)
SumSeq(s) == IF s = <<>> THEN 0 ELSE Head(s) + SumSeq(Tail(s))

RECURSIVE Select(_, _)
Select(arr, mask) ==
    IF arr = <<>> THEN <<>>
    ELSE (IF Head(mask) THEN <<Head(arr)>> ELSE <<>>)
         \o Select(Tail(arr), Tail(mask))

\* mutant: np.sum(values), the count of ones without the division
Mean_SumOnly(values) == Norm(SumSeq(values), 1)

\* np.mean(values): NaN on an empty array
Mean(values) == Norm(SumSeq(values), Len(values))

\* np.mean(arr[mask]): boolean indexing needs a mask as long as the array
MaskedMean(arr, mask) ==
    IF Len(arr) # Len(mask) THEN IndexError
    ELSE Ok(Mean(Select(arr, mask)))

(***************************************************************************)
(* src/metrics.py                                                          *)
(***************************************************************************)
\* mutant: only fewer than 2 groups are rejected
DP_AtLeastTwoGroups(y_pred, sensitive_attr) ==
    LET groups == Unique(sensitive_attr) IN
    IF Len(groups) < 2 THEN CardinalityError
    ELSE LET rate_0 == MaskedMean(y_pred, EqMask(sensitive_attr, groups[1]))
             rate_1 == MaskedMean(y_pred, EqMask(sensitive_attr, groups[2]))
         IN  IF IsErr(rate_0) THEN rate_0
             ELSE IF IsErr(rate_1) THEN rate_1
             ELSE Ok(RSub(rate_1.val, rate_0.val))

\* mutant: rate_0 - rate_1
DP_Reversed(y_pred, sensitive_attr) ==
    LET groups == Unique(sensitive_attr) IN
    IF Len(groups) # 2 THEN CardinalityError
    ELSE LET rate_0 == MaskedMean(y_pred, EqMask(sensitive_attr, groups[1]))
             rate_1 == MaskedMean(y_pred, EqMask(sensitive_attr, groups[2]))
         IN  IF IsErr(rate_0) THEN rate_0
             ELSE IF IsErr(rate_1) THEN rate_1
             ELSE Ok(RSub(rate_0.val, rate_1.val))

DemographicParityDifference(y_pred, sensitive_attr) ==
    LET groups == Unique(sensitive_attr) IN
    IF Len(groups) # 2 THEN CardinalityError
    ELSE LET rate_0 == MaskedMean(y_pred, EqMask(sensitive_attr, groups[1]))
             rate_1 == MaskedMean(y_pred, EqMask(sensitive_attr, groups[2]))
         IN  IF IsErr(rate_0) THEN rate_0
             ELSE IF IsErr(rate_1) THEN rate_1
             ELSE Ok(RSub(rate_1.val, rate_0.val))

\* mutant: no test for an empty selection, the mean of nothing is NaN
ConditionalRate_NoEmptyCheck(y_true, y_pred, sensitive_attr, group, label) ==
    MaskedMean(y_pred, AndMask(EqMask(sensitive_attr, group), EqMask(y_true, label)))

\* mutant: a group without a row of that label has the rate 1.0
ConditionalRate_EmptyIsOne(y_true, y_pred, sensitive_attr, group, label) ==
    LET mask == AndMask(EqMask(sensitive_attr, group), EqMask(y_true, label)) IN
    IF MaskSum(mask) = 0 THEN Ok(One) ELSE MaskedMean(y_pred, mask)

\* the rate of one group among the rows with y_true == label:
\* 0.0 when the group has no such row
ConditionalRate(y_true, y_pred, sensitive_attr, group, label) ==
    LET mask == AndMask(EqMask(sensitive_attr, group), EqMask(y_true, label)) IN
    IF MaskSum(mask) = 0 THEN Ok(Zero) ELSE MaskedMean(y_pred, mask)

TprDifference(y_true, y_pred, sensitive_attr, groups) ==
    LET tpr_0 == ConditionalRate(y_true, y_pred, sensitive_attr, groups[1], 1)
        tpr_1 == ConditionalRate(y_true, y_pred, sensitive_attr, groups[2], 1)
    IN  IF IsErr(tpr_0) THEN tpr_0
        ELSE IF IsErr(tpr_1) THEN tpr_1
        ELSE Ok(RSub(tpr_1.val, tpr_0.val))

FprDifference(y_true, y_pred, sensitive_attr, groups) ==
    LET fpr_0 == ConditionalRate(y_true, y_pred, sensitive_attr, groups[1], 0)
        fpr_1 == ConditionalRate(y_true, y_pred, sensitive_attr, groups[2], 0)
    IN  IF IsErr(fpr_0) THEN fpr_0
        ELSE IF IsErr(fpr_1) THEN fpr_1
        ELSE Ok(RSub(fpr_1.val, fpr_0.val))

\* mutant: the maximum of the signed differences
EO_Signed(y_true, y_pred, sensitive_attr) ==
    LET groups == Unique(sensitive_attr) IN
    IF Len(groups) # 2 THEN CardinalityError
    ELSE LET tpr_diff == TprDifference(y_true, y_pred, sensitive_attr, groups)
             fpr_diff == FprDifference(y_true, y_pred, sensitive_attr, groups)
         IN  IF IsErr(tpr_diff) THEN tpr_diff
             ELSE IF IsErr(fpr_diff) THEN fpr_diff
             ELSE Ok(RMax2(tpr_diff.val, fpr_diff.val))

EqualizedOddsDifference(y_true, y_pred, sensitive_attr) ==
    LET groups == Unique(sensitive_attr) IN
    IF Len(groups) # 2 THEN CardinalityError
    ELSE LET tpr_diff == TprDifference(y_true, y_pred, sensitive_attr, groups)
             fpr_diff == FprDifference(y_true, y_pred, sensitive_attr, groups)
         IN  IF IsErr(tpr_diff) THEN tpr_diff
             ELSE IF IsErr(fpr_diff) THEN fpr_diff
             ELSE Ok(RMax2(RAbs(tpr_diff.val), RAbs(fpr_diff.val)))

\* mutant: the magnitude of the difference of the true positive rates
EOP_Abs(y_true, y_pred, sensitive_attr) ==
    LET groups == Unique(sensitive_attr) IN
    IF Len(groups) # 2 THEN CardinalityError
    ELSE LET tpr_diff == TprDifference(y_true, y_pred, sensitive_attr, groups)
         IN  IF IsErr(tpr_diff) THEN tpr_diff ELSE Ok(RAbs(tpr_diff.val))

EqualOpportunityDifference(y_true, y_pred, sensitive_attr) ==
    LET groups == Unique(sensitive_attr) IN
    IF Len(groups) # 2 THEN CardinalityError
    ELSE TprDifference(y_true, y_pred, sensitive_attr, groups)

\* mutant: the quotient without the test for rate_0 == 0
DI_NoZeroGuard(y_pred, sensitive_attr) ==
    LET groups == Unique(sensitive_attr) IN
    IF Len(groups) # 2 THEN CardinalityError
    ELSE LET rate_0 == MaskedMean(y_pred, EqMask(sensitive_attr, groups[1]))
             rate_1 == MaskedMean(y_pred, EqMask(sensitive_attr, groups[2]))
         IN  IF IsErr(rate_0) THEN rate_0
             ELSE IF IsErr(rate_1) THEN rate_1
             ELSE Ok(RDiv(rate_1.val, rate_0.val))

\* mutant: 0.0 whenever rate_0 == 0
DI_ZeroOnZeroRate(y_pred, sensitive_attr) ==
    LET groups == Unique(sensitive_attr) IN
    IF Len(groups) # 2 THEN CardinalityError
    ELSE LET rate_0 == MaskedMean(y_pred, EqMask(sensitive_attr, groups[1]))
             rate_1 == MaskedMean(y_pred, EqMask(sensitive_attr, groups[2]))
         IN  IF IsErr(rate_0) THEN rate_0
             ELSE IF IsErr(rate_1) THEN rate_1
             ELSE IF rate_0.val = Zero
                  THEN Ok(Zero)
                  ELSE Ok(RDiv(rate_1.val, rate_0.val))

DisparateImpactRatio(y_pred, sensitive_attr) ==
    LET groups == Unique(sensitive_attr) IN
    IF Len(groups) # 2 THEN CardinalityError
    ELSE LET rate_0 == MaskedMean(y_pred, EqMask(sensitive_attr, groups[1]))
             rate_1 == MaskedMean(y_pred, EqMask(sensitive_attr, groups[2]))
         IN  IF IsErr(rate_0) THEN rate_0
             ELSE IF IsErr(rate_1) THEN rate_1
             ELSE IF rate_0.val = Zero
                  THEN Ok(IF rate_1.val = Zero THEN Zero ELSE Inf)
                  ELSE Ok(RDiv(rate_1.val, rate_0.val))

StatisticalParityDifference(y_pred, sensitive_attr) ==
    DemographicParityDifference(y_pred, sensitive_attr)

\* mutant: the mean of the signed differences
AO_Signed(y_true, y_pred, sensitive_attr) ==
    LET groups == Unique(sensitive_attr) IN
    IF Len(groups) # 2 THEN CardinalityError
    ELSE LET tpr_diff == TprDifference(y_true, y_pred, sensitive_attr, groups)
             fpr_diff == FprDifference(y_true, y_pred, sensitive_attr, groups)
         IN  IF IsErr(tpr_diff) THEN tpr_diff
             ELSE IF IsErr(fpr_diff) THEN fpr_diff
             ELSE Ok(RDiv(RAdd(tpr_diff.val, fpr_diff.val), <<2, 1>>))

AverageOddsDifference(y_true, y_pred, sensitive_attr) ==
    LET groups == Unique(sensitive_attr) IN
    IF Len(groups) # 2 THEN CardinalityError
    ELSE LET tpr_diff == TprDifference(y_true, y_pred, sensitive_attr, groups)
             fpr_diff == FprDifference(y_true, y_pred, sensitive_attr, groups)
         IN  IF IsErr(tpr_diff) THEN tpr_diff
             ELSE IF IsErr(fpr_diff) THEN fpr_diff
             ELSE Ok(RDiv(RAdd(RAbs(tpr_diff.val), RAbs(fpr_diff.val)), <<2, 1>>))

\* mutant: 'equal_opportunity' holds the value of equalized_odds_difference
ComputeAll_CopiedEntry(y_true, y_pred, sensitive_attr) ==
    LET dp  == DemographicParityDifference(y_pred, sensitive_attr)
        eo  == EqualizedOddsDifference(y_true, y_pred, sensitive_attr)
        di  == DisparateImpactRatio(y_pred, sensitive_attr)
        ao  == AverageOddsDifference(y_true, y_pred, sensitive_attr)
    IN  IF IsErr(dp) THEN dp
        ELSE IF IsErr(eo) THEN eo
        ELSE IF IsErr(di) THEN di
        ELSE IF IsErr(ao) THEN ao
        ELSE Ok([demographic_parity |-> dp.val,
                 equalized_odds     |-> eo.val,
                 equal_opportunity  |-> eo.val,
                 disparate_impact   |-> di.val,
                 average_odds       |-> ao.val])

\* the dict literal evaluates its five values in order; the first exception
\* leaves the function
ComputeAllMetrics(y_true, y_pred, sensitive_attr) ==
    LET dp  == DemographicParityDifference(y_pred, sensitive_attr)
        eo  == EqualizedOddsDifference(y_true, y_pred, sensitive_attr)
        eop == EqualOpportunityDifference(y_true, y_pred, sensitive_attr)
        di  == DisparateImpactRatio(y_pred, sensitive_attr)
        ao  == AverageOddsDifference(y_true, y_pred, sensitive_attr)
    IN  IF IsErr(dp) THEN dp
        ELSE IF IsErr(eo) THEN eo
        ELSE IF IsErr(eop) THEN eop
        ELSE IF IsErr(di) THEN di
        ELSE IF IsErr(ao) THEN ao
        ELSE Ok([demographic_parity |-> dp.val,
                 equalized_odds     |-> eo.val,
                 equal_opportunity  |-> eop.val,
                 disparate_impact   |-> di.val,
                 average_odds       |-> ao.val])

(***************************************************************************)
(* The detector after FairnessDetector(): __init__ with its defaults.      *)
(***************************************************************************)
DefaultThreshold == <<1, 10>>

NewDetector(t, v) ==
    /\ sensitive_attributes = <<>>
    /\ target = None
    /\ threshold = t
    /\ verbose = v
    /\ data_ = Nothing

(***************************************************************************)
(* The metric functions as a specification: the initial state holds the    *)
(* three argument arrays, each action calls one function on them.          *)
(***************************************************************************)
Rows == [s : Labels, t : {0, 1}, p : {0, 1}]

Tables == UNION {[1..n -> Rows] : n \in 0..MaxRows}

Column(tbl, c) == [i \in DOMAIN tbl |-> tbl[i][c]]

DropLast(s) == IF s = <<>> THEN s ELSE SubSeq(s, 1, Len(s) - 1)

\* aligned arrays, or a y_pred one element short of the other two
MetricInputs ==
    {[y_true         |-> Column(tbl, "t"),
      y_pred         |-> IF short THEN DropLast(Column(tbl, "p")) ELSE Column(tbl, "p"),
      sensitive_attr |-> Column(tbl, "s")] : tbl \in Tables, short \in BOOLEAN}

InitMetrics ==
    /\ NewDetector(DefaultThreshold, FALSE)
    /\ op = "input"
    /\ args \in MetricInputs
    /\ ret = Ok(NaN)

Call(name, result) ==
    /\ op' = name
    /\ ret' = result
    /\ UNCHANGED <<detector, args>>

CallDemographicParity ==
    Call("demographic_parity_difference",
         DemographicParityDifference(args.y_pred, args.sensitive_attr))

CallEqualizedOdds ==
    Call("equalized_odds_difference",
         EqualizedOddsDifference(args.y_true, args.y_pred, args.sensitive_attr))

CallEqualOpportunity ==
    Call("equal_opportunity_difference",
         EqualOpportunityDifference(args.y_true, args.y_pred, args.sensitive_attr))

CallDisparateImpact ==
    Call("disparate_impact_ratio",
         DisparateImpactRatio(args.y_pred, args.sensitive_attr))

CallStatisticalParity ==
    Call("statistical_parity_difference",
         StatisticalParityDifference(args.y_pred, args.sensitive_attr))

CallAverageOdds ==
    Call("average_odds_difference",
         AverageOddsDifference(args.y_true, args.y_pred, args.sensitive_attr))

CallComputeAll ==
    Call("compute_all_metrics",
         ComputeAllMetrics(args.y_true, args.y_pred, args.sensitive_attr))

NextMetrics ==
    \/ CallDemographicParity
    \/ CallEqualizedOdds
    \/ CallEqualOpportunity
    \/ CallDisparateImpact
    \/ CallStatisticalParity
    \/ CallAverageOdds
    \/ CallComputeAll

SpecMetrics == InitMetrics /\ [][NextMetrics]_vars

(***************************************************************************)
(* is_fair and its table of thresholds, as a specification of its own:     *)
(* the initial state holds a metric value and a metric name, the one       *)
(* action calls is_fair on them.                                           *)
(***************************************************************************)
FAIRNESS_THRESHOLDS ==
    [demographic_parity |-> <<1, 10>>,
     equalized_odds     |-> <<1, 10>>,
     equal_opportunity  |-> <<1, 10>>,
     disparate_impact   |-> <<4, 5>>,
     average_odds       |-> <<1, 10>>]

\* FAIRNESS_THRESHOLDS.get(metric_name, 0.1)
FairnessThreshold(metric_name) ==
    IF metric_name \in DOMAIN FAIRNESS_THRESHOLDS
    THEN FAIRNESS_THRESHOLDS[metric_name]
    ELSE <<1, 10>>

\* the comparisons exclude the limits
IsFair_Strict(metric_value, metric_name) ==
    LET thr == FairnessThreshold(metric_name)
    IN  IF metric_name = "disparate_impact"
        THEN RLt(thr, metric_value) /\ RLt(metric_value, RSub(<<2, 1>>, thr))
        ELSE RLt(RAbs(metric_value), thr)

IsFair(metric_value, metric_name) ==
    LET thr == FairnessThreshold(metric_name)
    IN  IF metric_name = "disparate_impact"
        THEN RLe(thr, metric_value) /\ RLe(metric_value, RSub(<<2, 1>>, thr))
        ELSE RLe(RAbs(metric_value), thr)

\* the multiples of 0.05 between -1.5 and 1.5, both infinities and NaN
MetricValues == {Norm(n, 20) : n \in -30..30} \cup {Inf, <<-1, 0>>, NaN}

\* the five names of the table and one name outside it
MetricNames == DOMAIN FAIRNESS_THRESHOLDS \cup {"statistical_parity"}

InitIsFair ==
    /\ NewDetector(DefaultThreshold, FALSE)
    /\ op = "input"
    /\ args \in [metric_value : MetricValues, metric_name : MetricNames]
    /\ ret = Ok(NaN)

CallIsFair ==
    /\ op = "input"
    /\ Call("is_fair", Ok(IsFair(args.metric_value, args.metric_name)))

NextIsFair == CallIsFair

SpecIsFair == InitIsFair /\ [][NextIsFair]_vars

(***************************************************************************)
(* src/fairness_detector.py                                                *)
(*                                                                         *)
(* A DataFrame is a function from its column names to columns of equal     *)
(* length.  An optional argument or field holding an array or a DataFrame  *)
(* is Nothing (Python's None) or Some(value).                              *)
(***************************************************************************)
\* str(group) of a label
GroupStr(g) ==
    CASE g = 1 -> "A" [] g = 2 -> "B" [] g = 3 -> "C" [] OTHER -> "Z"

KeyError(c) == Raise("KeyError", c)

\* df[c]
GetColumn(df, c) == IF c \in DOMAIN df THEN Ok(df[c]) ELSE KeyError(c)

NoDataError ==
    Raise("ValueError", "No data provided. Call load_data() or pass data parameter.")

NoSensitiveError ==
    Raise("ValueError", "No sensitive attributes set. Call set_sensitive_attributes().")

\* mutant: the held DataFrame wins over the argument
ResolveData_HeldFirst(data) ==
    IF data_ # Nothing THEN Ok(Get(data_))
    ELSE IF data # Nothing THEN Ok(Get(data))
    ELSE NoDataError

\* data if data is not None, else self._data if that is not None
ResolveData(data) ==
    IF data # Nothing THEN Ok(Get(data))
    ELSE IF data_ # Nothing THEN Ok(Get(data_))
    ELSE NoDataError

\* builtin max / min over a non-empty sequence of rates: the first extreme
RECURSIVE MaxFrom(_, _)
MaxFrom(m, rest) ==
    IF rest = <<>> THEN m ELSE MaxFrom(RMax2(m, Head(rest)), Tail(rest))

RECURSIVE MinFrom(_, _)
MinFrom(m, rest) ==
    IF rest = <<>> THEN m ELSE MinFrom(RMin2(m, Head(rest)), Tail(rest))

RateValues(rates) == [i \in DOMAIN rates |-> rates[i].rate]

\* the dict {str(group): float(np.mean(target[groups == group]))}, in the
\* order of np.unique(groups)
RatesByGroup(target_col, groups_col) ==
    LET unique_groups == Unique(groups_col) IN
    [i \in DOMAIN unique_groups |->
        [group |-> GroupStr(unique_groups[i]),
         rate  |-> Mean(Select(target_col, EqMask(groups_col, unique_groups[i])))]]

EmptyMaxError == Raise("ValueError", "max() arg is an empty sequence")

(***************************************************************************)
(* float64 rounding, digit by digit.  A natural number is the sequence of  *)
(* its digits in base 2^13, lowest first; a dyadic value m * 2^e is the    *)
(* record [m, e]; a float64 is a dyadic value with 2^52 <= m < 2^53, five  *)
(* digits of which the highest is 1.                                       *)
(***************************************************************************)
DigitBits == 13

Radix == 2^DigitBits

RECURSIVE DigitsAdd(_, _, _)
DigitsAdd(a, b, carry) ==
    IF a = <<>> /\ b = <<>> THEN (IF carry = 0 THEN <<>> ELSE <<carry>>)
    ELSE LET s == (IF a = <<>> THEN 0 ELSE Head(a))
                  + (IF b = <<>> THEN 0 ELSE Head(b)) + carry
         IN  <<s % Radix>> \o DigitsAdd(IF a = <<>> THEN <<>> ELSE Tail(a),
                                        IF b = <<>> THEN <<>> ELSE Tail(b),
                                        s \div Radix)

\* a * k + carry for a single digit k
RECURSIVE DigitsScale(_, _, _)
DigitsScale(a, k, carry) ==
    IF a = <<>> THEN (IF carry = 0 THEN <<>> ELSE <<carry>>)
    ELSE LET p == Head(a) * k + carry
         IN  <<p % Radix>> \o DigitsScale(Tail(a), k, p \div Radix)

RECURSIVE DigitsMul(_, _)
DigitsMul(a, b) ==
    IF b = <<>> THEN <<>>
    ELSE DigitsAdd(DigitsScale(a, Head(b), 0), <<0>> \o DigitsMul(a, Tail(b)), 0)

\* a * 2^n
DigitsShl(a, n) ==
    [i \in 1..(n \div DigitBits) |-> 0] \o DigitsScale(a, 2^(n % DigitBits), 0)

\* -1, 0 or 1 as a is below, equal to or above b
RECURSIVE DigitsCmp(_, _)
DigitsCmp(a, b) ==
    IF a = <<>> /\ b = <<>> THEN 0
    ELSE LET x == IF a = <<>> THEN 0 ELSE Head(a)
             y == IF b = <<>> THEN 0 ELSE Head(b)
             high == DigitsCmp(IF a = <<>> THEN <<>> ELSE Tail(a),
                               IF b = <<>> THEN <<>> ELSE Tail(b))
         IN  IF high # 0 THEN high
             ELSE IF x < y THEN -1 ELSE IF x > y THEN 1 ELSE 0

Dyadic(m, e) == [m |-> m, e |-> e]

DyCmp(u, v) ==
    IF u.e >= v.e THEN DigitsCmp(DigitsShl(u.m, u.e - v.e), v.m)
    ELSE DigitsCmp(u.m, DigitsShl(v.m, v.e - u.e))

DyAdd(u, v) ==
    IF u.e >= v.e THEN Dyadic(DigitsAdd(DigitsShl(u.m, u.e - v.e), v.m, 0), v.e)
    ELSE Dyadic(DigitsAdd(u.m, DigitsShl(v.m, v.e - u.e), 0), u.e)

DyMul(u, v) == Dyadic(DigitsMul(u.m, v.m), u.e + v.e)

\* the least t with k * 2^t >= n, for 0 < k <= n
RECURSIVE BinaryScale(_, _)
BinaryScale(k, n) == IF k >= n THEN 0 ELSE 1 + BinaryScale(2 * k, n)

\* long division: the next i quotient digits of r / n, and the remainder
RECURSIVE DivDigits(_, _, _)
DivDigits(r, n, i) ==
    IF i = 0 THEN [digits |-> <<>>, rem |-> r]
    ELSE LET rest == DivDigits((r * Radix) % n, n, i - 1)
         IN  [digits |-> rest.digits \o <<(r * Radix) \div n>>, rem |-> rest.rem]

\* the float64 nearest to the fraction q, 0 < q <= 1, ties to even
Float64Of(q) ==
    LET t == BinaryScale(q[1], q[2])
        d == DivDigits(q[1] * 2^t - q[2], q[2], 4)
        m == d.digits \o <<1>>
        up == 2 * d.rem > q[2] \/ (2 * d.rem = q[2] /\ m[1] % 2 = 1)
        m1 == IF up THEN DigitsAdd(m, <<1>>, 0) ELSE m
    IN  IF m1[5] = 2 THEN Dyadic(<<0, 0, 0, 0, 1>>, -t - 51)
        ELSE Dyadic(m1, -t - 52)

\* half the distance from the float64 r to the next float64 above, below
HalfUlpAbove(r) == Dyadic(<<1>>, r.e - 1)

HalfUlpBelow(r) ==
    IF r.m = <<0, 0, 0, 0, 1>> THEN Dyadic(<<1>>, r.e - 2)
    ELSE Dyadic(<<1>>, r.e - 1)

\* round-to-nearest-even of an exact x against the float64 r, from the
\* place of x against the two midpoints around r (up: x against the upper
\* one, down: the lower one against x): 1, 0, -1 as the rounded x is
\* above, equal to, below r
RoundedAgainst(up, down, r) ==
    IF up = 1 \/ (up = 0 /\ r.m[1] % 2 = 1) THEN 1
    ELSE IF down = 1 \/ (down = 0 /\ r.m[1] % 2 = 1) THEN -1
    ELSE 0

\* the float64 quotient a / b of two float64 against the float64 r
QuotientAgainst(a, b, r) ==
    RoundedAgainst(DyCmp(a, DyMul(DyAdd(r, HalfUlpAbove(r)), b)),
                   DyCmp(DyMul(r, b), DyAdd(a, DyMul(HalfUlpBelow(r), b))),
                   r)

\* the float64 product a * b of two float64 against the float64 r
ProductAgainst(a, b, r) ==
    RoundedAgainst(DyCmp(DyMul(a, b), DyAdd(r, HalfUlpAbove(r))),
                   DyCmp(r, DyAdd(DyMul(a, b), HalfUlpBelow(r))),
                   r)

EightyPercent == <<4, 5>>

UlpsPerValue == 2^20

\* the fraction q moved by s in {-1, 0, 1} steps too small to cross any
\* other value of the model: a float64 one rounding away from q
Nudged(q, s) ==
    IF s = 0 THEN q ELSE Norm(q[1] * UlpsPerValue + s, q[2] * UlpsPerValue)

\* min_rate / max_rate, 1.0 when max_rate == 0.  A quotient whose exact
\* value is not 4/5 is many ulps away from 0.8; one whose exact value is
\* 4/5 lands where the float64 division puts it against the literal 0.8
ImpactRatio(min_rate, max_rate) ==
    IF max_rate = Zero THEN One
    ELSE LET q == RDiv(min_rate, max_rate)
         IN  IF q # EightyPercent THEN q
             ELSE Nudged(q, QuotientAgainst(Float64Of(min_rate),
                                            Float64Of(max_rate),
                                            Float64Of(EightyPercent)))

\* threshold = 0.8 * max_rate as it compares with rate: a product whose
\* exact value is the rate lands where the float64 multiplication puts it
Threshold(max_rate, rate) ==
    LET cut == RMul(EightyPercent, max_rate)
    IN  IF rate # cut THEN cut
        ELSE Nudged(cut, ProductAgainst(Float64Of(EightyPercent),
                                        Float64Of(max_rate),
                                        Float64Of(rate)))

\* mutant: a ratio of exactly 0.8 is not compliant
IsCompliant_Strict(ratio) == RGt(ratio, EightyPercent)

\* compliant = ratio >= 0.8
IsCompliant(ratio) == RGe(ratio, EightyPercent)

\* mutant: a group at exactly 0.8 * max_rate fails too
GroupsBelow_Inclusive(rates, compliant, max_rate) ==
    IF compliant THEN <<>>
    ELSE SelectSeq(rates, LAMBDA e : RLe(e.rate, Threshold(max_rate, e.rate)))

\* the groups below 0.8 * max_rate, looked for only when not compliant
GroupsBelow(rates, compliant, max_rate) ==
    IF compliant THEN <<>>
    ELSE SelectSeq(rates, LAMBDA e : RLt(e.rate, Threshold(max_rate, e.rate)))

GroupNames(rates) == [i \in DOMAIN rates |-> rates[i].group]

\* the two configuration tests and the two column reads shared by the
\* compliance checks; Ok(rates) or the exception raised
ComplianceRates(data) ==
    LET df == ResolveData(data) IN
    IF IsErr(df) THEN df
    ELSE IF sensitive_attributes = <<>> THEN NoSensitiveError
    ELSE IF target = None THEN Raise("ValueError", "No target set. Call set_target().")
    ELSE LET target_col == GetColumn(df.val, target)
             groups_col == GetColumn(df.val, sensitive_attributes[1])
         IN  IF IsErr(target_col) THEN target_col
             ELSE IF IsErr(groups_col) THEN groups_col
             ELSE LET rates == RatesByGroup(target_col.val, groups_col.val)
                  IN  IF rates = <<>> THEN EmptyMaxError ELSE Ok(rates)

EeocCompliance(data) ==
    LET r == ComplianceRates(data) IN
    IF IsErr(r) THEN r
    ELSE LET selection_rates == r.val
             max_rate == MaxFrom(Head(RateValues(selection_rates)),
                                 Tail(RateValues(selection_rates)))
             min_rate == MinFrom(Head(RateValues(selection_rates)),
                                 Tail(RateValues(selection_rates)))
             impact_ratio == ImpactRatio(min_rate, max_rate)
             compliant == IsCompliant(impact_ratio)
         IN  Ok([compliant       |-> compliant,
                 impact_ratio    |-> impact_ratio,
                 threshold       |-> EightyPercent,
                 selection_rates |-> selection_rates,
                 max_rate        |-> max_rate,
                 min_rate        |-> min_rate,
                 failing_groups  |->
                     GroupNames(GroupsBelow(selection_rates, compliant, max_rate)),
                 regulation      |-> "EEOC 80% Rule"])

\* max(approval_rates.items(), key=lambda x: x[1])[0]: the first group
\* with the highest rate
RECURSIVE MaxGroupFrom(_, _)
MaxGroupFrom(m, rest) ==
    IF rest = <<>> THEN m.group
    ELSE MaxGroupFrom(IF RGt(Head(rest).rate, m.rate) THEN Head(rest) ELSE m,
                      Tail(rest))

RateOfGroup(rates, name) ==
    (CHOOSE e \in {rates[i] : i \in DOMAIN rates} : e.group = name).rate

\* mutant: only the groups with a rate below the highest one are reported
RateDifferences_BelowMaxOnly(rates) ==
    LET max_group == MaxGroupFrom(Head(rates), Tail(rates))
        others == SelectSeq(rates,
                            LAMBDA e : RLt(e.rate, RateOfGroup(rates, max_group)))
    IN  [i \in DOMAIN others |->
            [max_group |-> max_group,
             group     |-> others[i].group,
             diff      |-> RSub(RateOfGroup(rates, max_group), others[i].rate)]]

\* {f"{max_group}_vs_{group}": rate(max_group) - rate} for group != max_group
RateDifferences(rates) ==
    LET max_group == MaxGroupFrom(Head(rates), Tail(rates))
        others == SelectSeq(rates, LAMBDA e : e.group # max_group)
    IN  [i \in DOMAIN others |->
            [max_group |-> max_group,
             group     |-> others[i].group,
             diff      |-> RSub(RateOfGroup(rates, max_group), others[i].rate)]]

\* mutant: every group below max_rate is disadvantaged
EcoaCompliance_AllLowerGroups(data) ==
    LET r == ComplianceRates(data) IN
    IF IsErr(r) THEN r
    ELSE LET approval_rates == r.val
             max_rate == MaxFrom(Head(RateValues(approval_rates)),
                                 Tail(RateValues(approval_rates)))
             min_rate == MinFrom(Head(RateValues(approval_rates)),
                                 Tail(RateValues(approval_rates)))
             disparate_impact == ImpactRatio(min_rate, max_rate)
             compliant == IsCompliant(disparate_impact)
         IN  Ok([compliant            |-> compliant,
                 disparate_impact     |-> disparate_impact,
                 threshold            |-> EightyPercent,
                 approval_rates       |-> approval_rates,
                 rate_differences     |-> RateDifferences(approval_rates),
                 max_rate             |-> max_rate,
                 min_rate             |-> min_rate,
                 disadvantaged_groups |->
                     IF compliant THEN <<>>
                     ELSE GroupNames(SelectSeq(approval_rates,
                                               LAMBDA e : RLt(e.rate, max_rate))),
                 regulation           |-> "ECOA (Equal Credit Opportunity Act)"])

EcoaCompliance(data) ==
    LET r == ComplianceRates(data) IN
    IF IsErr(r) THEN r
    ELSE LET approval_rates == r.val
             max_rate == MaxFrom(Head(RateValues(approval_rates)),
                                 Tail(RateValues(approval_rates)))
             min_rate == MinFrom(Head(RateValues(approval_rates)),
                                 Tail(RateValues(approval_rates)))
             disparate_impact == ImpactRatio(min_rate, max_rate)
             compliant == IsCompliant(disparate_impact)
         IN  Ok([compliant            |-> compliant,
                 disparate_impact     |-> disparate_impact,
                 threshold            |-> EightyPercent,
                 approval_rates       |-> approval_rates,
                 rate_differences     |-> RateDifferences(approval_rates),
                 max_rate             |-> max_rate,
                 min_rate             |-> min_rate,
                 disadvantaged_groups |->
                     GroupNames(GroupsBelow(approval_rates, compliant, max_rate)),
                 regulation           |-> "ECOA (Equal Credit Opportunity Act)"])

CheckEeocCompliance(data) ==
    /\ op' = "check_eeoc_compliance"
    /\ args' = [data |-> data]
    /\ ret' = EeocCompliance(data)
    /\ UNCHANGED detector

CheckEcoaCompliance(data) ==
    /\ op' = "check_ecoa_compliance"
    /\ args' = [data |-> data]
    /\ ret' = EcoaCompliance(data)
    /\ UNCHANGED detector

\* any(abs(v) > self.threshold for v in results.values())
\* mutant: a value equal to the threshold counts as bias
HasBias_Inclusive(results) ==
    \E i \in DOMAIN results : RGe(RAbs(results[i].value), threshold)

HasBias(results) ==
    \E i \in DOMAIN results : RGt(RAbs(results[i].value), threshold)

\* mutant: among equal magnitudes the last metric wins
RECURSIVE MaxMetric_LastWins(_, _)
MaxMetric_LastWins(m, rest) ==
    IF rest = <<>> THEN m.name
    ELSE MaxMetric_LastWins(
             IF RGe(RAbs(Head(rest).value), RAbs(m.value)) THEN Head(rest) ELSE m,
             Tail(rest))

\* max(results.items(), key=lambda x: abs(x[1]))[0]: the first metric with
\* the largest magnitude
RECURSIVE MaxMetricFrom(_, _)
MaxMetricFrom(m, rest) ==
    IF rest = <<>> THEN m.name
    ELSE MaxMetricFrom(
             IF RGt(RAbs(Head(rest).value), RAbs(m.value)) THEN Head(rest) ELSE m,
             Tail(rest))

FixedRecommendations ==
    <<"Review data collection process for potential bias",
      "Consider bias mitigation techniques (reweighting, resampling)",
      "Evaluate model fairness across all protected groups",
      "Consult fairness documentation for mitigation strategies">>

BiasDetectionResult(results) ==
    LET has_bias == HasBias(results) IN
    [has_bias        |-> has_bias,
     bias_type       |-> IF has_bias
                         THEN MaxMetricFrom(Head(results), Tail(results))
                         ELSE None,
     metrics         |-> results,
     sensitive_attrs |-> sensitive_attributes,
     recommendations |-> IF has_bias THEN FixedRecommendations ELSE <<>>]

\* mutant: the groups are read from the column of the last declared attribute
DetectBias_LastAttribute(data, y_pred) ==
    LET df == ResolveData(data) IN
    IF IsErr(df) THEN df
    ELSE IF sensitive_attributes = <<>> THEN NoSensitiveError
    ELSE IF target = None /\ y_pred = Nothing
         THEN Raise("ValueError", "No target set and no predictions provided.")
    ELSE
    LET y == IF y_pred = Nothing THEN GetColumn(df.val, target) ELSE Ok(Get(y_pred))
        sens == GetColumn(df.val, sensitive_attributes[Len(sensitive_attributes)])
        true == GetColumn(df.val, target)
    IN  IF IsErr(y) THEN y
        ELSE IF IsErr(sens) THEN sens
        ELSE
        LET dp == DemographicParityDifference(y.val, sens.val) IN
        IF IsErr(dp) THEN dp
        ELSE IF IsErr(true) THEN true
        ELSE
        LET eo  == EqualizedOddsDifference(true.val, y.val, sens.val)
            eop == EqualOpportunityDifference(true.val, y.val, sens.val)
        IN  IF IsErr(eo) THEN eo
            ELSE IF IsErr(eop) THEN eop
            ELSE Ok(BiasDetectionResult(
                     <<[name |-> "demographic_parity", value |-> dp.val],
                       [name |-> "equalized_odds",     value |-> eo.val],
                       [name |-> "equal_opportunity",  value |-> eop.val]>>))

\* detect_bias: the three metrics are computed in turn, each argument read
\* from the DataFrame right before its call
DetectBiasResult(data, y_pred) ==
    LET df == ResolveData(data) IN
    IF IsErr(df) THEN df
    ELSE IF sensitive_attributes = <<>> THEN NoSensitiveError
    ELSE IF target = None /\ y_pred = Nothing
         THEN Raise("ValueError", "No target set and no predictions provided.")
    ELSE
    LET y == IF y_pred = Nothing THEN GetColumn(df.val, target) ELSE Ok(Get(y_pred))
        sens == GetColumn(df.val, sensitive_attributes[1])
        true == GetColumn(df.val, target)
    IN  IF IsErr(y) THEN y
        ELSE IF IsErr(sens) THEN sens
        ELSE
        LET dp == DemographicParityDifference(y.val, sens.val) IN
        IF IsErr(dp) THEN dp
        ELSE IF IsErr(true) THEN true
        ELSE
        LET eo  == EqualizedOddsDifference(true.val, y.val, sens.val)
            eop == EqualOpportunityDifference(true.val, y.val, sens.val)
        IN  IF IsErr(eo) THEN eo
            ELSE IF IsErr(eop) THEN eop
            ELSE Ok(BiasDetectionResult(
                     <<[name |-> "demographic_parity", value |-> dp.val],
                       [name |-> "equalized_odds",     value |-> eo.val],
                       [name |-> "equal_opportunity",  value |-> eop.val]>>))

\* mutant: a DataFrame passed to the call becomes the held one
DetectBias_KeepsData(data, y_pred) ==
    /\ op' = "detect_bias"
    /\ args' = [data |-> data, y_pred |-> y_pred]
    /\ ret' = DetectBiasResult(data, y_pred)
    /\ data_' = IF data # Nothing THEN data ELSE data_
    /\ UNCHANGED <<sensitive_attributes, target, threshold, verbose>>

DetectBias(data, y_pred) ==
    /\ op' = "detect_bias"
    /\ args' = [data |-> data, y_pred |-> y_pred]
    /\ ret' = DetectBiasResult(data, y_pred)
    /\ UNCHANGED detector

\* analyze(data) is detect_bias(data)
Analyze(data) ==
    /\ op' = "analyze"
    /\ args' = [data |-> data]
    /\ ret' = DetectBiasResult(data, Nothing)
    /\ UNCHANGED detector

SetSensitiveAttributes(attributes) ==
    /\ op' = "set_sensitive_attributes"
    /\ args' = [attributes |-> attributes]
    /\ sensitive_attributes' = attributes
    /\ ret' = Ok(None)
    /\ UNCHANGED <<target, threshold, verbose, data_>>

SetTarget(t) ==
    /\ op' = "set_target"
    /\ args' = [target |-> t]
    /\ target' = t
    /\ ret' = Ok(None)
    /\ UNCHANGED <<sensitive_attributes, threshold, verbose, data_>>

\* mutant: 0 < threshold < 1
InUnitInterval_Exclusive(t) == RLt(Zero, t) /\ RLt(t, One)

\* 0 <= threshold <= 1
InUnitInterval(t) == RLe(Zero, t) /\ RLe(t, One)

SetThreshold(t) ==
    /\ op' = "set_threshold"
    /\ args' = [threshold |-> t]
    /\ IF ~InUnitInterval(t)
       THEN /\ ret' = Raise("ValueError", "Threshold must be between 0 and 1")
            /\ UNCHANGED threshold
       ELSE /\ threshold' = t
            /\ ret' = Ok(None)
    /\ UNCHANGED <<sensitive_attributes, target, verbose, data_>>

SetVerbose(v) ==
    /\ op' = "set_verbose"
    /\ args' = [verbose |-> v]
    /\ verbose' = v
    /\ ret' = Ok(None)
    /\ UNCHANGED <<sensitive_attributes, target, threshold, data_>>

\* only the first declared attribute is looked up
MissingAttributes_FirstOnly(attrs, df) ==
    IF attrs # <<>> /\ attrs[1] \notin DOMAIN df THEN <<attrs[1]>> ELSE <<>>

\* the declared attributes that are no column of df, <<>> if none
MissingAttributes(attrs, df) == SelectSeq(attrs, LAMBDA c : c \notin DOMAIN df)

\* mutant: a rejected call leaves the detector as it was
LoadData_RolledBack(data, t, attrs) ==
    LET new_target == IF t # None THEN t ELSE target
        new_attrs  == IF attrs # <<>> THEN attrs ELSE sensitive_attributes
        missing    == MissingAttributes(new_attrs, data)
        rejected   == \/ new_target # None /\ new_target \notin DOMAIN data
                      \/ missing # <<>>
    IN  /\ op' = "load_data"
        /\ args' = [data |-> Some(data), target |-> t, sensitive_attrs |-> attrs]
        /\ data_' = IF rejected THEN data_ ELSE Some(data)
        /\ target' = IF rejected THEN target ELSE new_target
        /\ sensitive_attributes' = IF rejected THEN sensitive_attributes ELSE new_attrs
        /\ ret' = IF new_target # None /\ new_target \notin DOMAIN data
                  THEN Raise("ValueError", "Target column not found in data")
                  ELSE IF missing # <<>>
                  THEN Raise("ValueError", "Sensitive attribute not found in data")
                  ELSE Ok(None)
        /\ UNCHANGED <<threshold, verbose>>

\* load_data(data, target, sensitive_attrs) with a DataFrame: the data and
\* the two optional settings are stored first, the columns validated after
LoadData(data, t, attrs) ==
    LET new_target == IF t # None THEN t ELSE target
        new_attrs  == IF attrs # <<>> THEN attrs ELSE sensitive_attributes
        missing    == MissingAttributes(new_attrs, data)
    IN  /\ op' = "load_data"
        /\ args' = [data |-> Some(data), target |-> t, sensitive_attrs |-> attrs]
        /\ data_' = Some(data)
        /\ target' = new_target
        /\ sensitive_attributes' = new_attrs
        /\ ret' = IF new_target # None /\ new_target \notin DOMAIN data
                  THEN Raise("ValueError", "Target column not found in data")
                  ELSE IF missing # <<>>
                  THEN Raise("ValueError", "Sensitive attribute not found in data")
                  ELSE Ok(None)
        /\ UNCHANGED <<threshold, verbose>>

(***************************************************************************)
(* DataFrames of the specifications.                                       *)
(***************************************************************************)
Rep(x, n) == [i \in 1..n |-> x]

Frame(sensitive_col, target_col) ==
    [sensitive |-> sensitive_col, target |-> target_col]

\* every DataFrame of at most MaxRows rows, in every row order
SmallFrames ==
    UNION {{Frame(sc, tc) : sc \in [1..n -> Labels], tc \in [1..n -> {0, 1}]}
           : n \in 0..MaxRows}

\* n rows of group g, the first k of them selected
Shapes ==
    {sh \in (0..MaxGroupSize) \X (0..MaxGroupSize) : sh[2] <= sh[1]}

\* a DataFrame of up to three groups given by their shapes, group by group
BlockFrame(a, b, c) ==
    Frame(Rep(1, a[1]) \o Rep(2, b[1]) \o Rep(3, c[1]),
          Rep(1, a[2]) \o Rep(0, a[1] - a[2]) \o
          Rep(1, b[2]) \o Rep(0, b[1] - b[2]) \o
          Rep(1, c[2]) \o Rep(0, c[1] - c[2]))

BlockFrames == {BlockFrame(a, b, c) : a \in Shapes, b \in Shapes, c \in Shapes}

\* tests/test_fairness_detector.py: A 9/10 and B 8/10; A 10/10 and B 5/10
CompliantTestFrame == BlockFrame(<<10, 9>>, <<10, 8>>, <<0, 0>>)

NonCompliantTestFrame == BlockFrame(<<10, 10>>, <<10, 5>>, <<0, 0>>)

\* A 15/23 and B 12/23: the exact ratio is 4/5
RoundingFrame == BlockFrame(<<23, 15>>, <<23, 12>>, <<0, 0>>)

ComplianceFrames ==
    BlockFrames \cup SmallFrames
        \cup {CompliantTestFrame, NonCompliantTestFrame, RoundingFrame}

\* the detector after set_sensitive_attributes(['sensitive']) and
\* set_target('target') on FairnessDetector(threshold=t)
Configured(t) ==
    /\ sensitive_attributes = <<"sensitive">>
    /\ target = "target"
    /\ threshold = t
    /\ verbose = FALSE
    /\ data_ = Nothing

(***************************************************************************)
(* The compliance checks as a specification: the initial state holds the   *)
(* DataFrame of the call, each action is one check of it.                  *)
(***************************************************************************)
InitCompliance ==
    /\ Configured(DefaultThreshold)
    /\ op = "input"
    /\ args \in {[data |-> Some(f)] : f \in ComplianceFrames}
    /\ ret = Ok(NaN)

NextCompliance ==
    \/ CheckEeocCompliance(args.data)
    \/ CheckEcoaCompliance(args.data)

SpecCompliance == InitCompliance /\ [][NextCompliance]_vars

(***************************************************************************)
(* detect_bias as a specification: the initial state holds the threshold   *)
(* of the detector and the arguments of the call.                          *)
(***************************************************************************)
DetectThresholds == {Zero, <<1, 10>>, <<1, 2>>, One}

DetectInputs ==
    {[data |-> Some(f), y_pred |-> yp] :
        f \in SmallFrames,
        yp \in {Nothing} \cup {Some(p) : p \in UNION {[1..n -> {0, 1}] : n \in 0..MaxRows}}}

InitDetect ==
    /\ \E t \in DetectThresholds : Configured(t)
    /\ op = "input"
    /\ args \in {a \in DetectInputs :
                    a.y_pred = Nothing \/ Len(Get(a.y_pred)) = Len(Get(a.data).target)}
    /\ ret = Ok(NaN)

NextDetect == DetectBias(args.data, args.y_pred)

SpecDetect == InitDetect /\ [][NextDetect]_vars

(***************************************************************************)
(* The detector as a state machine: FairnessDetector(threshold, verbose)   *)
(* followed by any sequence of calls of its public methods.                *)
(***************************************************************************)
\* thresholds passed to the constructor and to set_threshold
ThresholdArgs == {<<-1, 10>>, Zero, <<1, 10>>, One, <<3, 2>>}

AttributeLists == {<<>>, <<"sensitive">>, <<"sensitive", "sex">>, <<"missing">>}

\* two groups of two rows with a second attribute, two groups without it,
\* and a DataFrame without the target column
DetectorFrames ==
    {[sensitive |-> <<1, 1, 2, 2>>, target |-> <<1, 1, 1, 0>>, sex |-> <<1, 2, 1, 2>>],
     [sensitive |-> <<1, 2>>, target |-> <<1, 0>>],
     [sensitive |-> <<1, 2, 3>>, sex |-> <<1, 1, 2>>]}

PredictionArgs == {Nothing, Some(<<1, 0>>), Some(<<1, 0, 0, 1>>)}

Init ==
    /\ \E t \in ThresholdArgs, v \in BOOLEAN :
          /\ NewDetector(t, v)
          /\ args = [threshold |-> t, verbose |-> v]
    /\ op = "__init__"
    /\ ret = Ok(None)

Next ==
    \/ \E attributes \in AttributeLists : SetSensitiveAttributes(attributes)
    \/ \E t \in {"target", "missing"} : SetTarget(t)
    \/ \E t \in ThresholdArgs : SetThreshold(t)
    \/ \E v \in BOOLEAN : SetVerbose(v)
    \/ \E data \in DetectorFrames, t \in {None, "target", "missing"},
          attrs \in AttributeLists : LoadData(data, t, attrs)
    \/ \E data \in {Nothing} \cup {Some(f) : f \in DetectorFrames},
          y_pred \in PredictionArgs : DetectBias(data, y_pred)
    \/ \E data \in {Nothing} \cup {Some(f) : f \in DetectorFrames} :
          CheckEeocCompliance(data)
    \/ \E data \in {Nothing} \cup {Some(f) : f \in DetectorFrames} :
          CheckEcoaCompliance(data)
    \/ \E data \in {Nothing} \cup {Some(f) : f \in DetectorFrames} : Analyze(data)

Spec == Init /\ [][Next]_vars

(***************************************************************************)
(* Reference quantities of the claims, by counting rows.                   *)
(***************************************************************************)
GroupsOf(arr) == {arr[i] : i \in DOMAIN arr}

LoGroup(arr) == CHOOSE g \in GroupsOf(arr) : \A h \in GroupsOf(arr) : g <= h

HiGroup(arr) == CHOOSE g \in GroupsOf(arr) : \A h \in GroupsOf(arr) : h <= g

Aligned(a) ==
    /\ Len(a.y_pred) = Len(a.sensitive_attr)
    /\ Len(a.y_true) = Len(a.sensitive_attr)

TwoGroups(a) == Cardinality(GroupsOf(a.sensitive_attr)) = 2

\* the fraction of ones of arr over the rows in S
Frac(arr, S) == Norm(Cardinality({i \in S : arr[i] = 1}), Cardinality(S))

RowsOfGroup(a, g) == {i \in DOMAIN a.sensitive_attr : a.sensitive_attr[i] = g}

RowsOfGroupLabel(a, g, l) == {i \in RowsOfGroup(a, g) : a.y_true[i] = l}

\* rate(g): mean of y_pred over the rows of group g
RateOf(a, g) == Frac(a.y_pred, RowsOfGroup(a, g))

\* TPR (l = 1) or FPR (l = 0) of group g, 0.0 without such a row
CondRateOf(a, g, l) ==
    IF RowsOfGroupLabel(a, g, l) = {} THEN Zero
    ELSE Frac(a.y_pred, RowsOfGroupLabel(a, g, l))

DeltaOf(a, l) ==
    RSub(CondRateOf(a, HiGroup(a.sensitive_attr), l),
         CondRateOf(a, LoGroup(a.sensitive_attr), l))

RNeg(x) == <<-x[1], x[2]>>

\* the same array with its two labels exchanged
SwapLabels(arr) ==
    [i \in DOMAIN arr |->
        IF arr[i] = LoGroup(arr) THEN HiGroup(arr) ELSE LoGroup(arr)]

TwoGroupOps ==
    {"demographic_parity_difference", "equalized_odds_difference",
     "equal_opportunity_difference", "disparate_impact_ratio",
     "average_odds_difference", "compute_all_metrics"}

(***************************************************************************)
(* C1: every 2-group-only metric function, and compute_all_metrics, raises *)
(* the cardinality ValueError and returns nothing whenever sensitive_attr  *)
(* has 0, 1 or 3 and more distinct values, whatever y_true and y_pred are  *)
(* (also when y_pred has another length).                                  *)
(***************************************************************************)
C1_CardinalityError ==
    (op \in TwoGroupOps /\ ~TwoGroups(args))
        => /\ ret.kind = "ValueError"
           /\ ret.msg = "Currently only supports binary sensitive attributes"

C1_Witness ==
    /\ op = "compute_all_metrics"
    /\ Cardinality(GroupsOf(args.sensitive_attr)) = 3
    /\ Len(args.y_pred) # Len(args.sensitive_attr)
    /\ ret.kind = "ValueError"

(***************************************************************************)
(* C2: with exactly two groups demographic_parity_difference returns       *)
(* rate(groups[1]) - rate(groups[0]), groups sorted; exchanging the two    *)
(* labels negates the result.                                              *)
(***************************************************************************)
C2_DemographicParitySigned ==
    (op = "demographic_parity_difference" /\ TwoGroups(args) /\ Aligned(args))
        => /\ ret = Ok(RSub(RateOf(args, HiGroup(args.sensitive_attr)),
                            RateOf(args, LoGroup(args.sensitive_attr))))
           /\ DemographicParityDifference(args.y_pred, SwapLabels(args.sensitive_attr))
                = Ok(RNeg(ret.val))

C2_Witness ==
    /\ op = "demographic_parity_difference"
    /\ GroupsOf(args.sensitive_attr) = {1, 2}
    /\ Aligned(args)
    /\ RateOf(args, 1) = One
    /\ RateOf(args, 2) = <<1, 2>>
    /\ ret = Ok(<<-1, 2>>)

(***************************************************************************)
(* C3: with exactly two groups equalized_odds_difference returns           *)
(* max(|dTPR|, |dFPR|), a group without a row of y_true == 1 (y_true == 0) *)
(* entering with the rate 0.0.                                             *)
(***************************************************************************)
C3_EqualizedOddsMax ==
    (op = "equalized_odds_difference" /\ TwoGroups(args) /\ Aligned(args))
        => LET dTPR == RAbs(DeltaOf(args, 1))
               dFPR == RAbs(DeltaOf(args, 0))
           IN  ret = Ok(IF RLt(dTPR, dFPR) THEN dFPR ELSE dTPR)

C3_Witness ==
    /\ op = "equalized_odds_difference"
    /\ TwoGroups(args) /\ Aligned(args)
    /\ RowsOfGroupLabel(args, LoGroup(args.sensitive_attr), 1) = {}
    /\ RowsOfGroupLabel(args, HiGroup(args.sensitive_attr), 1) # {}
    /\ ret = Ok(<<1, 2>>)

(***************************************************************************)
(* C4 as stated: with y_pred equal to y_true on every row,                 *)
(* equalized_odds_difference returns 0.0 for every 2-group input.          *)
(***************************************************************************)
PerfectPredictions(a) == Aligned(a) /\ a.y_pred = a.y_true

HasPositive(a, g) == RowsOfGroupLabel(a, g, 1) # {}

C4_Original ==
    (op = "equalized_odds_difference" /\ TwoGroups(args) /\ PerfectPredictions(args))
        => ret = Ok(Zero)

(***************************************************************************)
(* C4 amended: with y_pred equal to y_true on every row,                   *)
(* equalized_odds_difference returns 0.0 when both groups have a positive  *)
(* row or neither has, and 1.0 when exactly one group has a positive row.  *)
(***************************************************************************)
C4_PerfectPredictions ==
    (op = "equalized_odds_difference" /\ TwoGroups(args) /\ PerfectPredictions(args))
        => ret = Ok(IF HasPositive(args, LoGroup(args.sensitive_attr))
                        = HasPositive(args, HiGroup(args.sensitive_attr))
                    THEN Zero ELSE One)

C4_Witness ==
    /\ op = "equalized_odds_difference"
    /\ TwoGroups(args) /\ PerfectPredictions(args)
    /\ \A i \in RowsOfGroup(args, LoGroup(args.sensitive_attr)) : args.y_true[i] = 1
    /\ \A i \in RowsOfGroup(args, HiGroup(args.sensitive_attr)) : args.y_true[i] = 0
    /\ ret = Ok(One)

(***************************************************************************)
(* C5 as stated: group 'A' predicted all 1 and group 'B' all 0 gives       *)
(* demographic_parity_difference = 1.0 within 0.001.                       *)
(***************************************************************************)
AllOnesAllZeros(a) ==
    /\ GroupsOf(a.sensitive_attr) = {1, 2}
    /\ Aligned(a)
    /\ \A i \in RowsOfGroup(a, 1) : a.y_pred[i] = 1
    /\ \A i \in RowsOfGroup(a, 2) : a.y_pred[i] = 0

Within001(x, y) == RLt(RAbs(RSub(x, y)), <<1, 1000>>)

C5_Original ==
    (op = "demographic_parity_difference" /\ AllOnesAllZeros(args))
        => ret.kind = "ok" /\ Within001(ret.val, One)

(***************************************************************************)
(* C5 amended: group 'A' predicted all 1 and group 'B' all 0 gives         *)
(* demographic_parity_difference = -1.0 (rate(B) - rate(A)) within 0.001;  *)
(* only its absolute value is 1.0.                                         *)
(***************************************************************************)
C5_FullDifference ==
    (op = "demographic_parity_difference" /\ AllOnesAllZeros(args))
        => /\ ret.kind = "ok"
           /\ Within001(ret.val, RNeg(One))
           /\ Within001(RAbs(ret.val), One)

C5_Witness ==
    /\ op = "demographic_parity_difference"
    /\ AllOnesAllZeros(args)
    /\ Len(args.sensitive_attr) = 3
    /\ ret = Ok(<<-1, 1>>)

(***************************************************************************)
(* C6: with exactly two groups disparate_impact_ratio returns              *)
(* rate(groups[1]) / rate(groups[0]) when rate(groups[0]) is not 0, and    *)
(* for rate(groups[0]) = 0 it returns 0.0 if rate(groups[1]) = 0 and       *)
(* +infinity otherwise; it raises nothing and is never negative.           *)
(***************************************************************************)
C6_DisparateImpact ==
    (op = "disparate_impact_ratio" /\ TwoGroups(args) /\ Aligned(args))
        => LET r0 == RateOf(args, LoGroup(args.sensitive_attr))
               r1 == RateOf(args, HiGroup(args.sensitive_attr))
           IN  /\ ret.kind = "ok"
               /\ r0 # Zero => /\ IsFinite(ret.val)
                               /\ ret.val[1] * r0[1] * r1[2] = r1[1] * ret.val[2] * r0[2]
               /\ (r0 = Zero /\ r1 = Zero) => ret.val = Zero
               /\ (r0 = Zero /\ r1 # Zero) => ret.val = Inf
               /\ ret.val # NaN
               /\ ret.val[1] >= 0

C6_Witness ==
    /\ op = "disparate_impact_ratio"
    /\ TwoGroups(args) /\ Aligned(args)
    /\ RateOf(args, LoGroup(args.sensitive_attr)) = Zero
    /\ RateOf(args, HiGroup(args.sensitive_attr)) = <<1, 2>>
    /\ ret = Ok(Inf)

(***************************************************************************)
(* Reference quantities of the compliance claims: the DataFrame of the     *)
(* call, its groups and their rates by counting rows.                      *)
(***************************************************************************)
CallFrame == Get(args.data)

FrameGroups == GroupsOf(CallFrame.sensitive)

FrameRate(g) ==
    Frac(CallFrame.target, {i \in DOMAIN CallFrame.sensitive : CallFrame.sensitive[i] = g})

FrameRates == {FrameRate(g) : g \in FrameGroups}

\* x <= y and x < y on fractions with positive denominators
FracLe(x, y) == x[1] * y[2] <= y[1] * x[2]

FracLt(x, y) == x[1] * y[2] < y[1] * x[2]

FrameMaxRate == CHOOSE r \in FrameRates : \A q \in FrameRates : FracLe(q, r)

FrameMinRate == CHOOSE r \in FrameRates : \A q \in FrameRates : FracLe(r, q)

FrameRatio ==
    IF FrameMaxRate = Zero THEN One
    ELSE Norm(FrameMinRate[1] * FrameMaxRate[2], FrameMinRate[2] * FrameMaxRate[1])

Range(f) == {f[i] : i \in DOMAIN f}

(***************************************************************************)
(* C7: for a DataFrame with one or more groups check_eeoc_compliance       *)
(* raises nothing, reports one selection rate per group (the mean of the   *)
(* target over the group), impact_ratio = min_rate / max_rate, or 1.0 when *)
(* max_rate is 0, and compliant = (impact_ratio >= 0.8), 0.8 included.     *)
(* The quotient is the float64 one: the exact quotient, or one rounding    *)
(* off it where the exact quotient is 0.8.                                 *)
(***************************************************************************)
IsQuotient(v, q) ==
    \/ v = q
    \/ q = <<4, 5>> /\ v \in {Nudged(q, -1), Nudged(q, 1)}

C7_EeocImpactRatio ==
    (op = "check_eeoc_compliance" /\ FrameGroups # {})
        => /\ ret.kind = "ok"
           /\ Len(ret.val.selection_rates) = Cardinality(FrameGroups)
           /\ Range(ret.val.selection_rates)
                = {[group |-> GroupStr(g), rate |-> FrameRate(g)] : g \in FrameGroups}
           /\ ret.val.max_rate = FrameMaxRate
           /\ ret.val.min_rate = FrameMinRate
           /\ IsQuotient(ret.val.impact_ratio, FrameRatio)
           /\ ret.val.compliant = FracLe(<<4, 5>>, ret.val.impact_ratio)

C7_Witness ==
    /\ op = "check_eeoc_compliance"
    /\ Cardinality(FrameGroups) = 3
    /\ ret.kind = "ok"
    /\ ret.val.max_rate = One
    /\ ret.val.min_rate = <<4, 5>>
    /\ ret.val.impact_ratio = <<4, 5>>
    /\ ret.val.compliant

(***************************************************************************)
(* C8: failing_groups of check_eeoc_compliance is exactly the set of the   *)
(* groups whose own rate is strictly below 0.8 x max_rate; A 10/10 and     *)
(* B 5/10 give ['B'], A 9/10 and B 8/10 give [].  The product is the      *)
(* float64 one: a rate of the same exact value is below it where the       *)
(* multiplication rounds up.                                               *)
(***************************************************************************)
BelowEightyPercentOfMax(h) ==
    LET five_rate == 5 * FrameRate(h)[1] * FrameMaxRate[2]
        four_max  == 4 * FrameMaxRate[1] * FrameRate(h)[2]
    IN  \/ five_rate < four_max
        \/ /\ five_rate = four_max
           /\ FrameRate(h) # Zero
           /\ ProductAgainst(Float64Of(<<4, 5>>), Float64Of(FrameMaxRate),
                             Float64Of(FrameRate(h))) = 1

C8_FailingGroups ==
    (op = "check_eeoc_compliance" /\ FrameGroups # {})
        => /\ ret.kind = "ok"
           /\ Range(ret.val.failing_groups)
                = {GroupStr(g) : g \in {h \in FrameGroups :
                                           BelowEightyPercentOfMax(h)}}
           /\ Len(ret.val.failing_groups) = Cardinality(Range(ret.val.failing_groups))
           /\ CallFrame = NonCompliantTestFrame => ret.val.failing_groups = <<"B">>
           /\ CallFrame = CompliantTestFrame => ret.val.failing_groups = <<>>

C8_Witness ==
    /\ op = "check_eeoc_compliance"
    /\ ret.kind = "ok"
    /\ ret.val.failing_groups = <<"A", "C">>
    /\ FrameRate(1) # FrameRate(3)

(***************************************************************************)
(* Reference quantities of the detect_bias claims: the three arrays the    *)
(* call compares and the three metrics by counting rows.                   *)
(***************************************************************************)
DetectArrays ==
    [y_true         |-> CallFrame.target,
     y_pred         |-> IF args.y_pred = Nothing THEN CallFrame.target
                        ELSE Get(args.y_pred),
     sensitive_attr |-> CallFrame.sensitive]

RefMetrics ==
    LET a == DetectArrays
        dTPR == DeltaOf(a, 1)
        dFPR == DeltaOf(a, 0)
    IN  <<[name  |-> "demographic_parity",
           value |-> RSub(RateOf(a, HiGroup(a.sensitive_attr)),
                          RateOf(a, LoGroup(a.sensitive_attr)))],
          [name  |-> "equalized_odds",
           value |-> IF FracLt(RAbs(dTPR), RAbs(dFPR)) THEN RAbs(dFPR) ELSE RAbs(dTPR)],
          [name  |-> "equal_opportunity", value |-> dTPR]>>

Exceeds(x) == FracLt(threshold, RAbs(x))

(***************************************************************************)
(* C9: detect_bias returns has_bias = TRUE exactly when one of the three   *)
(* metrics has an absolute value strictly above the threshold; bias_type   *)
(* is None and recommendations is empty exactly when has_bias is FALSE,    *)
(* and with has_bias the recommendations are the same four fixed strings.  *)
(***************************************************************************)
C9_HasBias ==
    (op = "detect_bias" /\ TwoGroups(DetectArrays))
        => /\ ret.kind = "ok"
           /\ ret.val.has_bias = (\E i \in 1..3 : Exceeds(RefMetrics[i].value))
           /\ (ret.val.bias_type = None) = ~ret.val.has_bias
           /\ (ret.val.recommendations = <<>>) = ~ret.val.has_bias
           /\ ret.val.has_bias =>
                /\ Len(ret.val.recommendations) = 4
                /\ ret.val.recommendations = FixedRecommendations

C9_Witness ==
    /\ op = "detect_bias"
    /\ TwoGroups(DetectArrays)
    /\ threshold = <<1, 2>>
    /\ RAbs(RefMetrics[1].value) = <<1, 2>>
    /\ ret.kind = "ok"
    /\ ~ret.val.has_bias
    /\ ret.val.bias_type = None

(***************************************************************************)
(* C10: with has_bias, bias_type names the metric of largest absolute      *)
(* value among demographic_parity, equalized_odds, equal_opportunity, the  *)
(* earliest of them on a tie; group A all positive and group B all         *)
(* negative, threshold 0.1 and no y_pred, give 'demographic_parity'.       *)
(***************************************************************************)
AllPositiveAllNegative ==
    /\ FrameGroups = {1, 2}
    /\ \A i \in DOMAIN CallFrame.target :
          CallFrame.target[i] = (IF CallFrame.sensitive[i] = 1 THEN 1 ELSE 0)
    /\ args.y_pred = Nothing
    /\ threshold = <<1, 10>>

C10_BiasType ==
    (op = "detect_bias" /\ TwoGroups(DetectArrays))
        => /\ ret.kind = "ok"
           /\ ret.val.has_bias =>
                \E i \in 1..3 :
                    /\ ret.val.bias_type = RefMetrics[i].name
                    /\ \A j \in 1..3 :
                          FracLe(RAbs(RefMetrics[j].value), RAbs(RefMetrics[i].value))
                    /\ \A j \in 1..(i - 1) :
                          FracLt(RAbs(RefMetrics[j].value), RAbs(RefMetrics[i].value))
           /\ AllPositiveAllNegative =>
                ret.val.has_bias /\ ret.val.bias_type = "demographic_parity"

C10_Witness ==
    /\ op = "detect_bias"
    /\ AllPositiveAllNegative
    /\ ret.kind = "ok"
    /\ ret.val.has_bias
    /\ ret.val.bias_type = "demographic_parity"
    /\ RAbs(ret.val.metrics[2].value) = One

(***************************************************************************)
(* Reference quantities of the detector claims: the messages of the        *)
(* ValueErrors raised before any column is read.                           *)
(***************************************************************************)
ConfigurationMessages ==
    {NoSensitiveError.msg,
     "No target set. Call set_target().",
     "No target set and no predictions provided."}

AnalysisOps == {"detect_bias", "check_eeoc_compliance", "check_ecoa_compliance"}

(***************************************************************************)
(* C11: detect_bias, check_eeoc_compliance and check_ecoa_compliance raise *)
(* the configuration ValueError before any metric or rate is computed      *)
(* whenever the sensitive-attribute list is empty or the target is unset,  *)
(* for every combination of data and y_pred (the missing-data ValueError,  *)
(* which is tested first, is accepted as well).                            *)
(***************************************************************************)
C11_Original ==
    (op \in AnalysisOps /\ (sensitive_attributes = <<>> \/ target = None))
        => /\ ret.kind = "ValueError"
           /\ ret.msg \in ConfigurationMessages \cup {NoDataError.msg}

(***************************************************************************)
(* C12: load_data raises a ValueError ('... not found in data') whenever,  *)
(* after the call's target and sensitive_attrs arguments are applied, the  *)
(* configured target or any declared sensitive attribute (not only the     *)
(* first) is no column of the loaded data, and returns normally only when  *)
(* all of them are columns.                                                *)
(***************************************************************************)
ColumnsOf(df) == DOMAIN df

AllConfiguredColumnsPresent ==
    /\ target # None => target \in ColumnsOf(Get(data_))
    /\ \A i \in DOMAIN sensitive_attributes :
          sensitive_attributes[i] \in ColumnsOf(Get(data_))

NotFoundMessages ==
    {"Target column not found in data", "Sensitive attribute not found in data"}

C12_LoadDataValidates ==
    op = "load_data"
        => /\ data_ = args.data
           /\ args.target # None => target = args.target
           /\ args.sensitive_attrs # <<>> => sensitive_attributes = args.sensitive_attrs
           /\ IF AllConfiguredColumnsPresent
              THEN ret = Ok(None)
              ELSE ret.kind = "ValueError" /\ ret.msg \in NotFoundMessages

C12_Witness ==
    /\ op = "load_data"
    /\ sensitive_attributes = <<"sensitive", "sex">>
    /\ target = "target"
    /\ "target" \in ColumnsOf(Get(data_))
    /\ "sensitive" \in ColumnsOf(Get(data_))
    /\ "sex" \notin ColumnsOf(Get(data_))
    /\ ret.kind = "ValueError"
    /\ ret.msg = "Sensitive attribute not found in data"

(***************************************************************************)
(* C13: is_fair is TRUE exactly when |x| <= 0.1 for the difference metrics *)
(* (demographic_parity, equalized_odds, equal_opportunity, average_odds)   *)
(* and exactly when 0.8 <= x <= 1.2 for disparate_impact; the limits 0.1,  *)
(* -0.1, 0.8 and 1.2 themselves are fair.                                  *)
(***************************************************************************)
DifferenceMetrics ==
    {"demographic_parity", "equalized_odds", "equal_opportunity", "average_odds"}

\* x = n / d with d > 0 lies in [lo / 10, hi / 10]
WithinTenths(x, lo, hi) ==
    /\ x[2] > 0
    /\ lo * x[2] <= 10 * x[1]
    /\ 10 * x[1] <= hi * x[2]

C13_IsFair ==
    op = "is_fair"
        => LET x == args.metric_value
           IN  /\ args.metric_name \in DifferenceMetrics
                    => /\ ret = Ok(WithinTenths(x, -1, 1))
                       /\ x \in {<<1, 10>>, <<-1, 10>>} => ret = Ok(TRUE)
               /\ args.metric_name = "disparate_impact"
                    => /\ ret = Ok(WithinTenths(x, 8, 12))
                       /\ x \in {<<4, 5>>, <<6, 5>>} => ret = Ok(TRUE)

C13_Witness ==
    /\ op = "is_fair"
    /\ args.metric_name = "disparate_impact"
    /\ args.metric_value = <<6, 5>>
    /\ ret = Ok(TRUE)

(***************************************************************************)
(* C14: on a 2-group input equal_opportunity_difference returns the signed *)
(* TPR(groups[1]) - TPR(groups[0]), a group without a row of y_true = 1    *)
(* counting with rate 0.0; the result is the same whatever is predicted    *)
(* for the rows with y_true = 0.                                           *)
(***************************************************************************)
\* the prediction arrays that agree with a.y_pred on the rows of y_true = 1
SamePositives(a) ==
    {p \in [DOMAIN a.y_pred -> {0, 1}] :
        \A i \in DOMAIN a.y_pred : a.y_true[i] = 1 => p[i] = a.y_pred[i]}

C14_EqualOpportunity ==
    (op = "equal_opportunity_difference" /\ Aligned(args) /\ TwoGroups(args))
        => /\ ret = Ok(DeltaOf(args, 1))
           /\ \A p \in SamePositives(args) :
                 EqualOpportunityDifference(args.y_true, p, args.sensitive_attr) = ret

C14_Witness ==
    /\ op = "equal_opportunity_difference"
    /\ Aligned(args)
    /\ TwoGroups(args)
    /\ RowsOfGroupLabel(args, HiGroup(args.sensitive_attr), 1) = {}
    /\ \E i \in DOMAIN args.y_true : args.y_true[i] = 0 /\ args.y_pred[i] = 1
    /\ ret = Ok(<<-1, 1>>)

(***************************************************************************)
(* C15: on a 2-group input average_odds_difference returns                 *)
(* (|dTPR| + |dFPR|) / 2 for the dTPR and dFPR of equalized odds; it is    *)
(* never negative and never above equalized_odds_difference on the same    *)
(* input.                                                                  *)
(***************************************************************************)
\* half the sum of two fractions
HalfSum(x, y) == Norm(x[1] * y[2] + y[1] * x[2], 2 * x[2] * y[2])

C15_AverageOdds ==
    (op = "average_odds_difference" /\ Aligned(args) /\ TwoGroups(args))
        => /\ ret = Ok(HalfSum(RAbs(DeltaOf(args, 1)), RAbs(DeltaOf(args, 0))))
           /\ FracLe(Zero, ret.val)
           /\ LET eo == EqualizedOddsDifference(args.y_true, args.y_pred,
                                                args.sensitive_attr)
              IN  eo.kind = "ok" /\ FracLe(ret.val, eo.val)

C15_Witness ==
    /\ op = "average_odds_difference"
    /\ Aligned(args)
    /\ TwoGroups(args)
    /\ DeltaOf(args, 1) = <<-1, 1>>
    /\ DeltaOf(args, 0) = <<1, 2>>
    /\ ret = Ok(<<3, 4>>)

(***************************************************************************)
(* C16: on a 2-group input compute_all_metrics returns a dict of exactly   *)
(* the five keys demographic_parity, equalized_odds, equal_opportunity,    *)
(* disparate_impact and average_odds, each holding what the standalone     *)
(* function returns on the same input.                                     *)
(***************************************************************************)
\* rate(groups[1]) / rate(groups[0]) with the two conventions of rate 0
RatioOf(a) ==
    LET r0 == RateOf(a, LoGroup(a.sensitive_attr))
        r1 == RateOf(a, HiGroup(a.sensitive_attr))
    IN  IF r0[1] = 0 THEN (IF r1[1] = 0 THEN Zero ELSE Inf)
        ELSE Norm(r1[1] * r0[2], r1[2] * r0[1])

C16_ComputeAll ==
    (op = "compute_all_metrics" /\ Aligned(args) /\ TwoGroups(args))
        => /\ ret.kind = "ok"
           /\ DOMAIN ret.val = {"demographic_parity", "equalized_odds",
                                "equal_opportunity", "disparate_impact",
                                "average_odds"}
           /\ Ok(ret.val.demographic_parity)
                 = DemographicParityDifference(args.y_pred, args.sensitive_attr)
           /\ Ok(ret.val.equalized_odds)
                 = EqualizedOddsDifference(args.y_true, args.y_pred, args.sensitive_attr)
           /\ Ok(ret.val.equal_opportunity)
                 = EqualOpportunityDifference(args.y_true, args.y_pred, args.sensitive_attr)
           /\ Ok(ret.val.disparate_impact)
                 = DisparateImpactRatio(args.y_pred, args.sensitive_attr)
           /\ Ok(ret.val.average_odds)
                 = AverageOddsDifference(args.y_true, args.y_pred, args.sensitive_attr)
           /\ ret.val.demographic_parity
                 = RSub(RateOf(args, HiGroup(args.sensitive_attr)),
                        RateOf(args, LoGroup(args.sensitive_attr)))
           /\ ret.val.equal_opportunity = DeltaOf(args, 1)
           /\ ret.val.disparate_impact = RatioOf(args)
           /\ ret.val.average_odds
                 = HalfSum(RAbs(DeltaOf(args, 1)), RAbs(DeltaOf(args, 0)))
           /\ ret.val.equalized_odds
                 = (IF FracLt(RAbs(DeltaOf(args, 1)), RAbs(DeltaOf(args, 0)))
                    THEN RAbs(DeltaOf(args, 0)) ELSE RAbs(DeltaOf(args, 1)))

C16_Witness ==
    /\ op = "compute_all_metrics"
    /\ Aligned(args)
    /\ TwoGroups(args)
    /\ ret.kind = "ok"
    /\ ret.val.demographic_parity = <<-1, 2>>
    /\ ret.val.equalized_odds = One
    /\ ret.val.equal_opportunity = <<-1, 1>>
    /\ ret.val.disparate_impact = Zero
    /\ ret.val.average_odds = <<1, 2>>

(***************************************************************************)
(* C17: on a 2-group input whose two groups have the same positive         *)
(* prediction rate demographic_parity_difference returns 0.0; it returns   *)
(* exactly 0.0 when y_pred is all 0 or all 1.                              *)
(***************************************************************************)
Constant(arr) == \E v \in {0, 1} : \A i \in DOMAIN arr : arr[i] = v

C17_EqualRates ==
    (op = "demographic_parity_difference" /\ Aligned(args) /\ TwoGroups(args))
        => /\ RateOf(args, LoGroup(args.sensitive_attr))
                 = RateOf(args, HiGroup(args.sensitive_attr))
              => ret = Ok(Zero)
           /\ Constant(args.y_pred) => ret = Ok(Zero)

C17_Witness ==
    /\ op = "demographic_parity_difference"
    /\ Aligned(args)
    /\ TwoGroups(args)
    /\ Constant(args.y_pred)
    /\ args.y_pred[1] = 1
    /\ Cardinality(RowsOfGroup(args, LoGroup(args.sensitive_attr)))
          # Cardinality(RowsOfGroup(args, HiGroup(args.sensitive_attr)))
    /\ ret = Ok(Zero)

(***************************************************************************)
(* C18: on a 2-group input, disparate_impact_ratio with the order of the   *)
(* two groups exchanged returns the reciprocal of the original value, with *)
(* 1/0 = +inf and 1/inf = 0, except that with both rates 0 the value is    *)
(* 0.0 in both orders.                                                     *)
(***************************************************************************)
\* 1 / x of a non-negative fraction or +inf
Reciprocal(x) == <<x[2], x[1]>>

C18_Reciprocal ==
    (op = "disparate_impact_ratio" /\ Aligned(args) /\ TwoGroups(args))
        => LET swapped == DisparateImpactRatio(args.y_pred,
                                               SwapLabels(args.sensitive_attr))
               bothZero == /\ RateOf(args, LoGroup(args.sensitive_attr)) = Zero
                           /\ RateOf(args, HiGroup(args.sensitive_attr)) = Zero
           IN  /\ ret.kind = "ok"
               /\ swapped.kind = "ok"
               /\ IF bothZero
                  THEN ret.val = Zero /\ swapped.val = Zero
                  ELSE swapped.val = Reciprocal(ret.val)

C18_Witness ==
    /\ op = "disparate_impact_ratio"
    /\ Aligned(args)
    /\ TwoGroups(args)
    /\ ret = Ok(Inf)
    /\ DisparateImpactRatio(args.y_pred, SwapLabels(args.sensitive_attr)) = Ok(Zero)

(***************************************************************************)
(* C19: on the same detector state and data check_ecoa_compliance returns  *)
(* what check_eeoc_compliance returns: its compliant, disparate_impact,    *)
(* approval_rates, max_rate, min_rate and disadvantaged_groups equal the   *)
(* compliant, impact_ratio, selection_rates, max_rate, min_rate and        *)
(* failing_groups of the EEOC check, and it raises when that raises.       *)
(***************************************************************************)
C19_EcoaAsEeoc ==
    op = "check_ecoa_compliance"
        => LET eeoc == EeocCompliance(args.data)
           IN  IF IsErr(eeoc) THEN ret = eeoc
               ELSE /\ ret.kind = "ok"
                    /\ ret.val.compliant = eeoc.val.compliant
                    /\ ret.val.disparate_impact = eeoc.val.impact_ratio
                    /\ ret.val.approval_rates = eeoc.val.selection_rates
                    /\ ret.val.max_rate = eeoc.val.max_rate
                    /\ ret.val.min_rate = eeoc.val.min_rate
                    /\ ret.val.disadvantaged_groups = eeoc.val.failing_groups
                    /\ IsQuotient(ret.val.disparate_impact, FrameRatio)
                    /\ ret.val.compliant = FracLe(<<4, 5>>, ret.val.disparate_impact)

C19_Witness ==
    /\ op = "check_ecoa_compliance"
    /\ ret.kind = "ok"
    /\ ~ret.val.compliant
    /\ Cardinality(FrameGroups) = 3
    /\ ret.val.max_rate = One
    /\ ret.val.disadvantaged_groups = <<"C">>
    /\ EeocCompliance(args.data).val.failing_groups = <<"C">>

(***************************************************************************)
(* C20: rate_differences of check_ecoa_compliance holds one entry          *)
(* '<max_group>_vs_<group>' = max_rate - rate(group) for every group other *)
(* than max_group, the first group in sorted order with the highest rate;  *)
(* the differences are never negative, and a further group tied with the   *)
(* highest rate is reported with 0.0.                                      *)
(***************************************************************************)
\* the first group, in sorted order, with the highest rate
FirstMaxGroup ==
    CHOOSE g \in FrameGroups :
        /\ FrameRate(g) = FrameMaxRate
        /\ \A h \in FrameGroups : FrameRate(h) = FrameMaxRate => g <= h

ReportedGroups == {e.group : e \in Range(ret.val.rate_differences)}

EntriesAreDifferences ==
    \A e \in Range(ret.val.rate_differences) :
        /\ \E m \in FrameGroups :
              e.max_group = GroupStr(m) /\ FrameRate(m) = FrameMaxRate
        /\ \E g \in FrameGroups :
              e.group = GroupStr(g) /\ e.diff = RSub(FrameMaxRate, FrameRate(g))

C20_RateDifferences ==
    (op = "check_ecoa_compliance" /\ ret.kind = "ok")
        => /\ ReportedGroups = {GroupStr(g) : g \in FrameGroups \ {FirstMaxGroup}}
           /\ Len(ret.val.rate_differences) = Cardinality(FrameGroups) - 1
           /\ EntriesAreDifferences
           /\ \A e \in Range(ret.val.rate_differences) :
                 /\ e.max_group = GroupStr(FirstMaxGroup)
                 /\ FracLe(Zero, e.diff)

\* the statement with only the groups below the highest rate reported
C20_Original ==
    (op = "check_ecoa_compliance" /\ ret.kind = "ok")
        => /\ ReportedGroups
                 = {GroupStr(g) : g \in {h \in FrameGroups :
                                            FracLt(FrameRate(h), FrameMaxRate)}}
           /\ EntriesAreDifferences
           /\ \A e \in Range(ret.val.rate_differences) : FracLt(Zero, e.diff)

C20_Witness ==
    /\ op = "check_ecoa_compliance"
    /\ ret.kind = "ok"
    /\ Cardinality(FrameGroups) = 3
    /\ ret.val.rate_differences[1] = [max_group |-> "A", group |-> "B", diff |-> Zero]
    /\ ret.val.rate_differences[2].group = "C"
    /\ FracLt(Zero, ret.val.rate_differences[2].diff)

(***************************************************************************)
(* Reference quantities of the claims on the whole detector: the DataFrame *)
(* a call works on and, counted row by row on it, the arrays and rates of  *)
(* the first sensitive attribute.                                          *)
(***************************************************************************)
\* the data argument when given, the held DataFrame otherwise
ResolvedFrame == IF args.data # Nothing THEN Get(args.data) ELSE Get(data_)

ResolvedArrays ==
    LET f == ResolvedFrame
    IN  [y_true         |-> f[target],
         y_pred         |-> IF "y_pred" \in DOMAIN args /\ args.y_pred # Nothing
                            THEN Get(args.y_pred) ELSE f[target],
         sensitive_attr |-> f[sensitive_attributes[1]]]

ResolvedGroups == GroupsOf(ResolvedArrays.sensitive_attr)

\* the rate of the target column over the rows of group g
ResolvedRate(g) == Frac(ResolvedArrays.y_true, RowsOfGroup(ResolvedArrays, g))

(***************************************************************************)
(* C21: detect_bias, check_eeoc_compliance and check_ecoa_compliance work  *)
(* on the data argument when it is given, also when another DataFrame is   *)
(* held, otherwise on the DataFrame held since the last load_data, and     *)
(* raise ValueError ('No data provided ...') when there is neither; that   *)
(* test comes before the tests of the configuration.                       *)
(***************************************************************************)
C21_DataResolution ==
    op \in AnalysisOps
        => /\ (args.data = Nothing /\ data_ = Nothing) <=> (ret = NoDataError)
           /\ (ret.kind = "ok" /\ op = "detect_bias")
                 => ret.val.metrics[1].value
                       = RSub(RateOf(ResolvedArrays, HiGroup(ResolvedArrays.sensitive_attr)),
                              RateOf(ResolvedArrays, LoGroup(ResolvedArrays.sensitive_attr)))
           /\ (ret.kind = "ok" /\ op = "check_eeoc_compliance")
                 => \A g \in ResolvedGroups :
                       \E e \in Range(ret.val.selection_rates) :
                           e.group = GroupStr(g) /\ e.rate = ResolvedRate(g)
           /\ (ret.kind = "ok" /\ op = "check_ecoa_compliance")
                 => \A g \in ResolvedGroups :
                       \E e \in Range(ret.val.approval_rates) :
                           e.group = GroupStr(g) /\ e.rate = ResolvedRate(g)

C21_Witness ==
    /\ op = "detect_bias"
    /\ args.data # Nothing
    /\ data_ # Nothing
    /\ Len(Get(args.data).sensitive) = 2
    /\ Len(Get(data_).sensitive) = 4
    /\ args.y_pred = Nothing
    /\ ret.kind = "ok"
    /\ ret.val.metrics[1].value = <<-1, 1>>

(***************************************************************************)
(* C22: only sensitive_attributes[0] is consumed.  The metrics, has_bias,  *)
(* bias_type and recommendations of detect_bias, and the result of the     *)
(* compliance checks, are a function of the first declared attribute, the  *)
(* target, the threshold, y_pred and the two columns these name: states    *)
(* and DataFrames that differ only in the names declared after the first   *)
(* or in the other columns give the same results.                          *)
(***************************************************************************)
\* everything the compared results may depend on; neither the names after
\* the first nor any other column is part of it
LowInputs ==
    LET f == ResolvedFrame
        first == sensitive_attributes[1]
    IN  [first      |-> first,
         target     |-> target,
         threshold  |-> threshold,
         y_pred     |-> IF op = "detect_bias" THEN args.y_pred ELSE Nothing,
         first_col  |-> IF first \in DOMAIN f THEN Some(f[first]) ELSE Nothing,
         target_col |-> IF target \in DOMAIN f THEN Some(f[target]) ELSE Nothing]

\* the arrays of a call whose two columns exist
LowArrays(v) ==
    [y_true         |-> Get(v.target_col),
     y_pred         |-> IF v.y_pred = Nothing THEN Get(v.target_col) ELSE Get(v.y_pred),
     sensitive_attr |-> Get(v.first_col)]

\* the three metrics of detect_bias counted row by row on the arrays a
MetricsOf(a) ==
    LET dTPR == DeltaOf(a, 1)
        dFPR == DeltaOf(a, 0)
    IN  <<[name  |-> "demographic_parity",
           value |-> RSub(RateOf(a, HiGroup(a.sensitive_attr)),
                          RateOf(a, LoGroup(a.sensitive_attr)))],
          [name  |-> "equalized_odds",
           value |-> IF FracLt(RAbs(dTPR), RAbs(dFPR)) THEN RAbs(dFPR) ELSE RAbs(dTPR)],
          [name  |-> "equal_opportunity", value |-> dTPR]>>

\* the first metric of largest magnitude
LargestOf(m) ==
    m[CHOOSE i \in DOMAIN m :
          /\ \A j \in DOMAIN m : FracLe(RAbs(m[j].value), RAbs(m[i].value))
          /\ \A j \in 1..(i - 1) : FracLt(RAbs(m[j].value), RAbs(m[i].value))].name

ExpectedDetect(v) ==
    IF v.target = None /\ v.y_pred = Nothing
    THEN Raise("ValueError", "No target set and no predictions provided.")
    ELSE IF v.y_pred = Nothing /\ v.target_col = Nothing THEN KeyError(v.target)
    ELSE IF v.first_col = Nothing THEN KeyError(v.first)
    ELSE IF Cardinality(GroupsOf(Get(v.first_col))) # 2 THEN CardinalityError
    ELSE IF v.y_pred # Nothing /\ Len(Get(v.y_pred)) # Len(Get(v.first_col))
         THEN IndexError
    ELSE IF v.target_col = Nothing THEN KeyError(v.target)
    ELSE LET m == MetricsOf(LowArrays(v))
             biased == \E i \in DOMAIN m : FracLt(v.threshold, RAbs(m[i].value))
         IN  <<m, biased,
               IF biased THEN LargestOf(m) ELSE None,
               IF biased THEN FixedRecommendations ELSE <<>>>>

\* the rates of the target column per group of the first attribute, and
\* the compliance result counted from them
ExpectedCompliance(o, v) ==
    IF v.target = None THEN Raise("ValueError", "No target set. Call set_target().")
    ELSE IF v.target_col = Nothing THEN KeyError(v.target)
    ELSE IF v.first_col = Nothing THEN KeyError(v.first)
    ELSE IF Get(v.first_col) = <<>> THEN EmptyMaxError
    ELSE
    LET a       == LowArrays(v)
        groups  == SortedSeq(GroupsOf(a.sensitive_attr))
        rate(g) == Frac(a.y_true, RowsOfGroup(a, g))
        rates   == [i \in DOMAIN groups |->
                       [group |-> GroupStr(groups[i]), rate |-> rate(groups[i])]]
        all     == {rate(g) : g \in GroupsOf(a.sensitive_attr)}
        max     == CHOOSE r \in all : \A q \in all : FracLe(q, r)
        min     == CHOOSE r \in all : \A q \in all : FracLe(r, q)
        ratio   == ImpactRatio(min, max)
        ok      == FracLe(<<4, 5>>, ratio)
        below   == IF ok THEN <<>>
                   ELSE GroupNames(SelectSeq(rates,
                            LAMBDA e : FracLt(e.rate, Threshold(max, e.rate))))
        best    == CHOOSE i \in DOMAIN rates :
                      /\ rates[i].rate = max
                      /\ \A j \in 1..(i - 1) : rates[j].rate # max
        others  == SelectSeq(rates, LAMBDA e : e.group # rates[best].group)
        diffs   == [i \in DOMAIN others |->
                       [max_group |-> rates[best].group,
                        group     |-> others[i].group,
                        diff      |-> RSub(max, others[i].rate)]]
    IN  IF o = "check_eeoc_compliance"
        THEN Ok([compliant       |-> ok,
                 impact_ratio    |-> ratio,
                 threshold       |-> <<4, 5>>,
                 selection_rates |-> rates,
                 max_rate        |-> max,
                 min_rate        |-> min,
                 failing_groups  |-> below,
                 regulation      |-> "EEOC 80% Rule"])
        ELSE Ok([compliant            |-> ok,
                 disparate_impact     |-> ratio,
                 threshold            |-> <<4, 5>>,
                 approval_rates       |-> rates,
                 rate_differences     |-> diffs,
                 max_rate             |-> max,
                 min_rate             |-> min,
                 disadvantaged_groups |-> below,
                 regulation           |-> "ECOA (Equal Credit Opportunity Act)"])

\* the compared part of a result: everything but the sensitive_attrs field
Observed(o, r) ==
    IF o = "detect_bias" /\ r.kind = "ok"
    THEN <<r.val.metrics, r.val.has_bias, r.val.bias_type, r.val.recommendations>>
    ELSE r

Rerun(o, data, y_pred) ==
    CASE o = "detect_bias"           -> DetectBiasResult(data, y_pred)
      [] o = "check_eeoc_compliance" -> EeocCompliance(data)
      [] o = "check_ecoa_compliance" -> EcoaCompliance(data)

\* f without the column c, and f with the column c replaced or added
WithoutColumn(f, c) == [k \in DOMAIN f \ {c} |-> f[k]]

WithColumn(f, c, col) == [k \in DOMAIN f \cup {c} |-> IF k = c THEN col ELSE f[k]]

\* the DataFrames that differ from f in the column 'sex' only, which is
\* neither the target nor the first attribute
OtherColumnVariants(f) ==
    IF "sex" \in {target, sensitive_attributes[1]} THEN {f}
    ELSE {f, WithoutColumn(f, "sex")}
         \cup {WithColumn(f, "sex", col) :
                  col \in [1..Len(f.sensitive) -> {1, 2}]}

C22_FirstAttributeOnly ==
    (/\ op \in AnalysisOps
     /\ sensitive_attributes # <<>>
     /\ (args.data # Nothing \/ data_ # Nothing))
        => /\ Observed(op, ret)
                 = (IF op = "detect_bias" THEN ExpectedDetect(LowInputs)
                    ELSE ExpectedCompliance(op, LowInputs))
           /\ \A f \in OtherColumnVariants(ResolvedFrame) :
                 Rerun(op, Some(f), LowInputs.y_pred) = ret

C22_Witness ==
    /\ op = "detect_bias"
    /\ sensitive_attributes = <<"sensitive", "sex">>
    /\ args.data # Nothing
    /\ "sex" \notin DOMAIN Get(args.data)
    /\ ret.kind = "ok"
    /\ ret.val.has_bias
    /\ ret.val.sensitive_attrs = <<"sensitive", "sex">>

(***************************************************************************)
(* C23: the sensitive_attrs field of the result of detect_bias lists, in   *)
(* order, exactly the attributes whose columns entered the metrics of that *)
(* call, also when several attributes are declared; by C22 that is the     *)
(* first declared attribute alone.                                         *)
(***************************************************************************)
C23_Original ==
    (op = "detect_bias" /\ ret.kind = "ok")
        => ret.val.sensitive_attrs = <<sensitive_attributes[1]>>

(***************************************************************************)
(* C24: detect_bias, analyze, check_eeoc_compliance and                    *)
(* check_ecoa_compliance leave target, sensitive_attributes, threshold,    *)
(* verbose and the held DataFrame as they are, a DataFrame passed to the   *)
(* call included; the call repeated with the same arguments returns an     *)
(* equal result.  (Results are values of the calls: the detector keeps     *)
(* none, so that no later call has one to alter.)                          *)
(***************************************************************************)
ReadOnlyOps == AnalysisOps \cup {"analyze"}

ReadOnlyStep ==
    op' \in ReadOnlyOps
        => /\ sensitive_attributes' = sensitive_attributes
           /\ target' = target
           /\ threshold' = threshold
           /\ verbose' = verbose
           /\ data_' = data_
           /\ (op = op' /\ args = args') => ret' = ret

C24_ReadOnly == [][ReadOnlyStep]_vars

C24_Witness ==
    /\ op = "detect_bias"
    /\ args.data # Nothing
    /\ data_ # Nothing
    /\ args.data # data_
    /\ ret.kind = "ok"
    /\ DetectBiasResult(Nothing, args.y_pred).kind = "ok"
    /\ ret.val.metrics[1].value
          # DetectBiasResult(Nothing, args.y_pred).val.metrics[1].value

(***************************************************************************)
(* C25: set_threshold(t) with t outside [0, 1] raises ValueError           *)
(* ('Threshold must be between 0 and 1') and leaves every field of the     *)
(* detector as it was; with 0 <= t <= 1, both limits included, it sets     *)
(* threshold to t and changes no other field.                              *)
(***************************************************************************)
SetThresholdStep ==
    op' = "set_threshold"
        => LET t == args'.threshold
           IN  /\ sensitive_attributes' = sensitive_attributes
               /\ target' = target
               /\ verbose' = verbose
               /\ data_' = data_
               /\ IF t[2] > 0 /\ 0 <= t[1] /\ t[1] <= t[2]
                  THEN threshold' = t /\ ret' = Ok(None)
                  ELSE /\ threshold' = threshold
                       /\ ret'.kind = "ValueError"
                       /\ ret'.msg = "Threshold must be between 0 and 1"

C25_SetThreshold == [][SetThresholdStep]_vars

C25_Witness ==
    /\ op = "set_threshold"
    /\ args.threshold = <<3, 2>>
    /\ ret.kind = "ValueError"
    /\ threshold = One
    /\ sensitive_attributes # <<>>
    /\ data_ # Nothing

(***************************************************************************)
(* C26: in every reachable state of a detector, constructed with any       *)
(* threshold argument and driven by any sequence of its methods, the bias  *)
(* threshold lies within 0.0 to 1.0.                                       *)
(***************************************************************************)
C26_Original ==
    /\ threshold[2] > 0
    /\ 0 <= threshold[1]
    /\ threshold[1] <= threshold[2]

(***************************************************************************)
(* C27: demographic_parity_difference on a sensitive attribute with one    *)
(* distinct value raises a ValueError whose message contains 'at least 2   *)
(* groups'.  Of the messages of the package only the one of                *)
(* utils.validate_sensitive_attribute contains these words.                *)
(***************************************************************************)
MessagesWithAtLeastTwoGroups == {"Sensitive attribute must have at least 2 groups"}

C27_Original ==
    (/\ op = "demographic_parity_difference"
     /\ Cardinality(GroupsOf(args.sensitive_attr)) = 1)
        => /\ ret.kind = "ValueError"
           /\ ret.msg \in MessagesWithAtLeastTwoGroups

(***************************************************************************)
(* C28: detect_bias without y_pred on 0/1 labels uses the target column as *)
(* truth and as prediction: every group's false positive rate is 0, its    *)
(* true positive rate 1 with a positive label in the group and 0 without;  *)
(* equalized_odds and equal_opportunity are 0 when both groups or neither  *)
(* have a positive label and of magnitude 1 otherwise, and in the former   *)
(* case has_bias is |demographic_parity| > threshold.                      *)
(***************************************************************************)
HasPositiveLabel(g) == \E i \in DOMAIN CallFrame.target :
                     CallFrame.sensitive[i] = g /\ CallFrame.target[i] = 1

GroupRate(g, label) ==
    ConditionalRate(CallFrame.target, CallFrame.target, CallFrame.sensitive, g, label)

C28_LabelsAsPredictions ==
    (op = "detect_bias" /\ args.y_pred = Nothing /\ TwoGroups(DetectArrays))
        => /\ ret.kind = "ok"
           /\ \A g \in FrameGroups :
                 /\ GroupRate(g, 0) = Ok(Zero)
                 /\ GroupRate(g, 1) = Ok(IF HasPositiveLabel(g) THEN One ELSE Zero)
           /\ IF HasPositiveLabel(LoGroup(CallFrame.sensitive))
                    = HasPositiveLabel(HiGroup(CallFrame.sensitive))
              THEN /\ ret.val.metrics[2] = [name |-> "equalized_odds", value |-> Zero]
                   /\ ret.val.metrics[3] = [name |-> "equal_opportunity", value |-> Zero]
                   /\ ret.val.has_bias = Exceeds(RefMetrics[1].value)
              ELSE /\ ret.val.metrics[2] = [name |-> "equalized_odds", value |-> One]
                   /\ ret.val.metrics[3].name = "equal_opportunity"
                   /\ RAbs(ret.val.metrics[3].value) = One

C28_Witness ==
    /\ op = "detect_bias"
    /\ args.y_pred = Nothing
    /\ TwoGroups(DetectArrays)
    /\ HasPositiveLabel(1)
    /\ HasPositiveLabel(2)
    /\ Len(CallFrame.target) = 3
    /\ threshold = <<1, 10>>
    /\ ret.kind = "ok"
    /\ ret.val.metrics[2].value = Zero
    /\ ret.val.metrics[1].value = <<1, 2>>
    /\ ret.val.has_bias
    /\ ret.val.bias_type = "demographic_parity"

(***************************************************************************)
(* C29: the result of check_eeoc_compliance, and of                        *)
(* check_ecoa_compliance, on a 0/1 target is consistent with itself:       *)
(* 0 <= impact_ratio <= 1; compliant is False exactly when a group is      *)
(* listed as failing (disadvantaged); no group at max_rate is listed; and  *)
(* when compliant is False every group at min_rate is listed.              *)
(***************************************************************************)
ComplianceOps == {"check_eeoc_compliance", "check_ecoa_compliance"}

ReportedRatio ==
    IF op = "check_eeoc_compliance" THEN ret.val.impact_ratio
    ELSE ret.val.disparate_impact

ListedGroups ==
    IF op = "check_eeoc_compliance" THEN Range(ret.val.failing_groups)
    ELSE Range(ret.val.disadvantaged_groups)

GroupsAt(rate) == {GroupStr(g) : g \in {h \in FrameGroups : FrameRate(h) = rate}}

RatioInUnitInterval == FracLe(Zero, ReportedRatio) /\ FracLe(ReportedRatio, One)

FailsIffListed == (~ret.val.compliant) <=> (ListedGroups # {})

MaxNeverListed == GroupsAt(ret.val.max_rate) \cap ListedGroups = {}

MinListedWhenFailing ==
    ~ret.val.compliant => GroupsAt(ret.val.min_rate) \subseteq ListedGroups

C29_Original ==
    (op \in ComplianceOps /\ ret.kind = "ok")
        => /\ RatioInUnitInterval
           /\ FailsIffListed
           /\ MaxNeverListed
           /\ MinListedWhenFailing

(***************************************************************************)
(* C30: a load_data call that raises ValueError for a missing target or    *)
(* sensitive-attribute column is not rolled back.  The detector holds the  *)
(* DataFrame of that call and the target / sensitive_attrs passed with it  *)
(* (the ones set before where none was passed), and a detect_bias or       *)
(* check_*_compliance call without data that follows returns what the      *)
(* rejected DataFrame and configuration give.                              *)
(***************************************************************************)
\* the configuration a load_data call asks for
AskedTarget == IF args.target # None THEN args.target ELSE target

AskedAttributes ==
    IF args.sensitive_attrs # <<>> THEN args.sensitive_attrs ELSE sensitive_attributes

\* what an analysis with y_pred may depend on, taken from the arguments of
\* the rejected call
RejectedInputs(y_pred) ==
    LET f == Get(args.data)
        first == AskedAttributes[1]
    IN  [first      |-> first,
         target     |-> AskedTarget,
         threshold  |-> threshold,
         y_pred     |-> y_pred,
         first_col  |-> IF first \in DOMAIN f THEN Some(f[first]) ELSE Nothing,
         target_col |-> IF AskedTarget \in DOMAIN f THEN Some(f[AskedTarget])
                        ELSE Nothing]

RejectedLoadStep ==
    /\ (op' = "load_data" /\ ret'.kind = "ValueError")
          => /\ data_' = args'.data
             /\ target' = (IF args'.target # None THEN args'.target ELSE target)
             /\ sensitive_attributes'
                  = (IF args'.sensitive_attrs # <<>> THEN args'.sensitive_attrs
                     ELSE sensitive_attributes)
    /\ (/\ op = "load_data"
        /\ ret.kind = "ValueError"
        /\ op' \in AnalysisOps
        /\ args'.data = Nothing)
          => IF AskedAttributes = <<>> THEN ret' = NoSensitiveError
             ELSE IF op' = "detect_bias"
             THEN /\ Observed(op', ret') = ExpectedDetect(RejectedInputs(args'.y_pred))
                  /\ ret'.kind = "ok" => ret'.val.sensitive_attrs = AskedAttributes
             ELSE ret' = ExpectedCompliance(op', RejectedInputs(Nothing))

C30_NotRolledBack == [][RejectedLoadStep]_vars

C30_Witness ==
    /\ op = "load_data"
    /\ ret.kind = "ValueError"
    /\ args.target = "missing"
    /\ args.sensitive_attrs = <<"sensitive", "sex">>
    /\ data_ = args.data
    /\ "sex" \notin DOMAIN Get(data_)
    /\ target = "missing"
    /\ sensitive_attributes = <<"sensitive", "sex">>

====
